---- MODULE Spec2Model ----
(***************************************************************************)
(* A model of the PDF exporter (src/src/export/pdf.rs) and of the table     *)
(* node (src/library/src/layout/table.rs).                                 *)
(*                                                                         *)
(* The exporter is a sequential program.  Its state is the PdfExporter     *)
(* (allocator, pages, remappers, reference vectors, glyph sets and the     *)
(* written objects) together with the PageExporter that is live while a    *)
(* page is built.  The input frames are supplied element by element: each  *)
(* step of build_pages hands the page writer the next element of the       *)
(* frame tree.  Lengths are whole points and Em values whole ems, both     *)
(* exact in f32, so Length::to_f32 keeps the value.                        *)
(***************************************************************************)
EXTENDS Integers, Sequences, FiniteSets, TLC

\* ------------------------------------------------------------------ bounds
MaxPages == 2
MaxElems == 3
MaxDepth == 1
MaxSvgObjects == 2
MaxInserts == 4
MaxKey == 3
MaxEncodes == 2
MaxTableCols == 2
MaxCells == 3
MaxFills == 4

\* ----------------------------------------------------------------- helpers
None == <<>>
Some(x) == <<x>>

Min(a, b) == IF a < b THEN a ELSE b

Max(a, b) == IF a < b THEN b ELSE a

Last(s) == s[Len(s)]

Front(s) == SubSeq(s, 1, Len(s) - 1)

EmptyMap == [k \in {} |-> 0]

MapPut(m, k, v) == [j \in DOMAIN m \cup {k} |-> IF j = k THEN v ELSE m[j]]

\* ---------------------------------------------------------------- Remapper
RemapperNew == [to_pdf |-> EmptyMap, to_layout |-> <<>>]

\* insert without the entry() lookup: every call appends
RemapperInsertAlways(r, index) ==
    [to_pdf |-> MapPut(r.to_pdf, index, Len(r.to_layout)),
     to_layout |-> Append(r.to_layout, index)]

\* insert that looks only at the key inserted last
RemapperInsertUnlessLast(r, index) ==
    IF r.to_layout /= <<>> /\ Last(r.to_layout) = index
    THEN r
    ELSE [to_pdf |-> MapPut(r.to_pdf, index, Len(r.to_layout)),
          to_layout |-> Append(r.to_layout, index)]

RemapperInsert(r, index) ==
    IF index \in DOMAIN r.to_pdf
    THEN r
    ELSE [to_pdf |-> MapPut(r.to_pdf, index, Len(r.to_layout)),
          to_layout |-> Append(r.to_layout, index)]

RemapperMap(r, index) == r.to_pdf[index]

\* refs.iter().copied().zip(0 .. self.to_pdf.len())
PdfIndices(r, refs) ==
    [i \in 1 .. Min(Len(refs), Cardinality(DOMAIN r.to_pdf)) |-> <<refs[i], i - 1>>]

LayoutIndices(r) == r.to_layout

\* format_eco!("F{}", n) and format_eco!("Im{}", n)
FontName(n) == <<"F", n>>

ImageName(n) == <<"Im", n>>

\* ---------------------------------------------------------------- geometry
TransformIdentity == [sx |-> 1, ky |-> 0, kx |-> 0, sy |-> 1, tx |-> 0, ty |-> 0]

TransformTranslate(x, y) == [sx |-> 1, ky |-> 0, kx |-> 0, sy |-> 1, tx |-> x, ty |-> y]

PreConcat(t, prev) ==
    [sx |-> t.sx * prev.sx + t.kx * prev.ky,
     ky |-> t.ky * prev.sx + t.sy * prev.ky,
     kx |-> t.sx * prev.kx + t.kx * prev.sy,
     sy |-> t.ky * prev.kx + t.sy * prev.sy,
     tx |-> t.sx * prev.tx + t.kx * prev.ty + t.tx,
     ty |-> t.ky * prev.tx + t.sy * prev.ty + t.ty]

PointTransform(p, ts) ==
    <<ts.sx * p[1] + ts.kx * p[2] + ts.tx, ts.ky * p[1] + ts.sy * p[2] + ts.ty>>

\* Em::to_font_units
ToFontUnits(em) == 1000 * em

\* the closure f in set_fill / set_stroke: c as f32 / 255.0, kept as a fraction
ColorF(c) == [num |-> c, den |-> 255]

SRGB == "sRGB"

SRGB_GRAY == "sRGBGray"

\* ------------------------------------------------------ the stores (inputs)
\* Face::advance: the default advance of a glyph, None for a glyph the face lacks
FaceAdvance(face, id) == IF id = 65535 THEN None ELSE Some(1)

\* ImageStore::get: format, pixel kind and size of each image
Images ==
    [i \in 1 .. 3 |->
        CASE i = 1 -> [kind |-> "raster", format |-> "png", color |-> "rgba8", width |-> 4, height |-> 3]
          [] i = 2 -> [kind |-> "raster", format |-> "jpeg", color |-> "rgb8", width |-> 2, height |-> 2]
          [] i = 3 -> [kind |-> "svg", format |-> "svg", color |-> "none", width |-> 5, height |-> 5]]

ImageIds == DOMAIN Images

\* Lang::dir
LangDir(lang) == IF lang \in {"ar", "he"} THEN "RTL" ELSE "LTR"

\* ------------------------------------------------------------ input elements
Luma(c) == [kind |-> "luma", v |-> <<c>>]

Rgba(r, g, b, a) == [kind |-> "rgba", v |-> <<r, g, b, a>>]

Cmyk(c, m, y, k) == [kind |-> "cmyk", v |-> <<c, m, y, k>>]

Solid(color) == [color |-> color]

Black == Solid(Luma(0))

Red == Solid(Rgba(255, 0, 0, 255))

Cyan == Solid(Cmyk(255, 0, 0, 0))

Glyph(id, adv, off) == [id |-> id, x_advance |-> adv, x_offset |-> off]

Texts ==
    {[face_id |-> 1, size |-> 10, fill |-> Black, lang |-> "en",
      glyphs |-> <<Glyph(258, 1, 0), Glyph(7, 2, 0), Glyph(65535, 1, 0)>>],
     [face_id |-> 2, size |-> 12, fill |-> Red, lang |-> "ar",
      glyphs |-> <<Glyph(7, 1, 1), Glyph(300, 1, 0)>>],
     [face_id |-> 1, size |-> 11, fill |-> Black, lang |-> "en",
      glyphs |-> <<Glyph(9, 1, 0)>>]}

Shapes ==
    {[geometry |-> [kind |-> "rect", a |-> 2, b |-> 3], fill |-> Some(Red), stroke |-> None],
     [geometry |-> [kind |-> "rect", a |-> 2, b |-> 3], fill |-> Some(Cyan), stroke |-> None],
     [geometry |-> [kind |-> "rect", a |-> 0, b |-> 3], fill |-> Some(Black),
      stroke |-> Some([paint |-> Black, thickness |-> 1])],
     [geometry |-> [kind |-> "line", a |-> 4, b |-> 0], fill |-> None,
      stroke |-> Some([paint |-> Cyan, thickness |-> 2])],
     [geometry |-> [kind |-> "rect", a |-> 2, b |-> 3], fill |-> None, stroke |-> None]}

\* glyph runs with kerning: a single glyph; a wide glyph first; a wide glyph
\* last; three glyphs of which the first two are offset; an offset that
\* cancels the advance of the glyph before; a glyph the face has no advance for
KernedRuns ==
    {<<Glyph(7, 1, 0)>>,
     <<Glyph(7, 2, 0), Glyph(8, 1, 0)>>,
     <<Glyph(7, 1, 0), Glyph(8, 2, 0)>>,
     <<Glyph(7, 1, 1), Glyph(8, 1, 1), Glyph(9, 1, 0)>>,
     <<Glyph(7, 2, 0), Glyph(8, 1, 0 - 1), Glyph(9, 1, 0)>>,
     <<Glyph(65535, 2, 0), Glyph(7, 1, 0)>>}

KernedTexts ==
    {[face_id |-> 1, size |-> 10, fill |-> Black, lang |-> "en", glyphs |-> gs] :
        gs \in KernedRuns}

\* the size of the i-th input frame: every frame has its own height
FrameSize(i) == <<10, 10 + 10 * i>>

ElemPos == <<1, 2>>

LinkSize == <<3, 4>>

LinkPos == <<5, 6>>

ImageSize == <<4, 3>>

Urls == {"https://typst.app"}

\* page numbers of internal links: valid ones, 0, and one past the last page
LinkPages == 0 .. MaxPages + 1

Groups ==
    {[transform |-> TransformIdentity, clips |-> FALSE, size |-> <<6, 6>>],
     [transform |-> [sx |-> 2, ky |-> 0, kx |-> 0, sy |-> 2, tx |-> 0, ty |-> 0],
      clips |-> TRUE, size |-> <<6, 6>>]}

\* --------------------------------------------------------------- PageExporter
\* State::default()
StateDefault ==
    [transform |-> TransformIdentity, font |-> None, fill |-> None,
     fill_space |-> None, stroke |-> None, stroke_space |-> None]

\* a page writer that starts with the font and the fill of a page before it
PageExporterNewCached(fm, im, gs) ==
    [font_map |-> fm, image_map |-> im, glyphs |-> gs, languages |-> EmptyMap,
     bottom |-> 0, content |-> <<>>, links |-> <<>>,
     state |-> [StateDefault EXCEPT !.font = Some(<<1, 10>>), !.fill = Some(Black)],
     saves |-> <<>>, calls |-> <<>>]

\* PageExporter::new; font_map, image_map and glyphs borrow the exporter's
PageExporterNew(fm, im, gs) ==
    [font_map |-> fm, image_map |-> im, glyphs |-> gs, languages |-> EmptyMap,
     bottom |-> 0, content |-> <<>>, links |-> <<>>, state |-> StateDefault,
     saves |-> <<>>, calls |-> <<>>]

\* one operator appended to self.content
Emit(x, o) == [x EXCEPT !.content = Append(@, o)]

\* the record of one request to the page writer: what was asked and the
\* part of the content stream it produced
Call(x, y, kind, value) ==
    [y EXCEPT !.calls = Append(@, [kind |-> kind, value |-> value,
                                   from |-> Len(x.content), to |-> Len(y.content)])]

\* the cached state and the depth of the save stack, as the record of a
\* save_state or restore_state request keeps them
Cached(x) == [state |-> x.state, saves |-> Len(x.saves)]

\* the request records the state it saves
save_state(x) ==
    Call(x, Emit([x EXCEPT !.saves = Append(@, x.state)], [op |-> "save_state"]),
         "save", Cached(x))

\* restore_state that pops the saved state and keeps the current one
restore_state_keeps_cache(x) ==
    LET y == [Emit(x, [op |-> "restore_state"]) EXCEPT !.saves = Front(x.saves)]
    IN  Call(x, y, "restore", Cached(y))

\* the caller checks that self.saves is not empty (expect("missing state save"));
\* the request records the state it leaves
restore_state(x) ==
    LET y == [Emit(x, [op |-> "restore_state"]) EXCEPT !.state = Last(x.saves),
                                                       !.saves = Front(x.saves)]
    IN  Call(x, y, "restore", Cached(y))

transform(x, t) ==
    Emit([x EXCEPT !.state.transform = PreConcat(x.state.transform, t)],
         [op |-> "transform", m |-> <<t.sx, t.ky, t.kx, t.sy, t.tx, t.ty>>])

\* set_font that forgets to record the font in the cache
set_font_nocache(x, face_id, size) ==
    LET fm == RemapperInsert(x.font_map, face_id)
    IN  Call(x, Emit([x EXCEPT !.font_map = fm],
                     [op |-> "set_font", name |-> FontName(RemapperMap(fm, face_id)),
                      size |-> size]),
             "font", <<face_id, size>>)

set_font(x, face_id, size) ==
    IF x.state.font /= Some(<<face_id, size>>)
    THEN LET fm == RemapperInsert(x.font_map, face_id)
         IN  Call(x, Emit([x EXCEPT !.font_map = fm, !.state.font = Some(<<face_id, size>>)],
                          [op |-> "set_font", name |-> FontName(RemapperMap(fm, face_id)),
                           size |-> size]),
                  "font", <<face_id, size>>)
    ELSE Call(x, x, "font", <<face_id, size>>)

set_fill_color_space(x, space) ==
    IF x.state.fill_space /= Some(space)
    THEN Emit([x EXCEPT !.state.fill_space = Some(space)],
              [op |-> "set_fill_color_space", space |-> space])
    ELSE x

\* set_fill whose CMYK arm drops the cached colour-space name
set_fill_cmyk_resets(x, fill) ==
    IF x.state.fill /= Some(fill)
    THEN LET c == fill.color
             y == CASE c.kind = "luma" ->
                         Emit(set_fill_color_space(x, SRGB_GRAY),
                              [op |-> "set_fill_gray", c |-> <<ColorF(c.v[1])>>])
                    [] c.kind = "rgba" ->
                         Emit(set_fill_color_space(x, SRGB),
                              [op |-> "set_fill_color",
                               c |-> <<ColorF(c.v[1]), ColorF(c.v[2]), ColorF(c.v[3])>>])
                    [] c.kind = "cmyk" ->
                         Emit([x EXCEPT !.state.fill_space = None],
                              [op |-> "set_fill_cmyk",
                               c |-> <<ColorF(c.v[1]), ColorF(c.v[2]),
                                       ColorF(c.v[3]), ColorF(c.v[4])>>])
         IN  Call(x, [y EXCEPT !.state.fill = Some(fill)], "fill", fill)
    ELSE Call(x, x, "fill", fill)

set_fill(x, fill) ==
    IF x.state.fill /= Some(fill)
    THEN LET c == fill.color
             y == CASE c.kind = "luma" ->
                         Emit(set_fill_color_space(x, SRGB_GRAY),
                              [op |-> "set_fill_gray", c |-> <<ColorF(c.v[1])>>])
                    [] c.kind = "rgba" ->
                         Emit(set_fill_color_space(x, SRGB),
                              [op |-> "set_fill_color",
                               c |-> <<ColorF(c.v[1]), ColorF(c.v[2]), ColorF(c.v[3])>>])
                    [] c.kind = "cmyk" ->
                         Emit(x, [op |-> "set_fill_cmyk",
                                  c |-> <<ColorF(c.v[1]), ColorF(c.v[2]),
                                          ColorF(c.v[3]), ColorF(c.v[4])>>])
         IN  Call(x, [y EXCEPT !.state.fill = Some(fill)], "fill", fill)
    ELSE Call(x, x, "fill", fill)

set_stroke_color_space(x, space) ==
    IF x.state.stroke_space /= Some(space)
    THEN Emit([x EXCEPT !.state.stroke_space = Some(space)],
              [op |-> "set_stroke_color_space", space |-> space])
    ELSE x

set_stroke(x, stroke) ==
    IF x.state.stroke /= Some(stroke)
    THEN LET c == stroke.paint.color
             y == CASE c.kind = "luma" ->
                         Emit(set_stroke_color_space(x, SRGB_GRAY),
                              [op |-> "set_stroke_gray", c |-> <<ColorF(c.v[1])>>])
                    [] c.kind = "rgba" ->
                         Emit(set_stroke_color_space(x, SRGB),
                              [op |-> "set_stroke_color",
                               c |-> <<ColorF(c.v[1]), ColorF(c.v[2]), ColorF(c.v[3])>>])
                    [] c.kind = "cmyk" ->
                         Emit(x, [op |-> "set_stroke_cmyk",
                                  c |-> <<ColorF(c.v[1]), ColorF(c.v[2]),
                                          ColorF(c.v[3]), ColorF(c.v[4])>>])
             z == Emit(y, [op |-> "set_line_width", w |-> stroke.thickness])
         IN  Call(x, [z EXCEPT !.state.stroke = Some(stroke)], "stroke", stroke)
    ELSE Call(x, x, "stroke", stroke)

\* the first part of PageExporter::export: the flip to a top-left origin
export_begin(x, size) ==
    transform([x EXCEPT !.bottom = size[2]],
              [sx |-> 1, ky |-> 0, kx |-> 0, sy |-> 0 - 1, tx |-> 0, ty |-> size[2]])

\* write_group up to the recursive write_frame
write_group_begin(x, pos, group) ==
    LET y == transform(save_state(x),
                       PreConcat(TransformTranslate(pos[1], pos[2]), group.transform))
        w == group.size[1]
        h == group.size[2]
    IN  IF group.clips
        THEN Emit(Emit(Emit(Emit(Emit(Emit(y,
                 [op |-> "move_to", x |-> 0, y |-> 0]),
                 [op |-> "line_to", x |-> w, y |-> 0]),
                 [op |-> "line_to", x |-> w, y |-> h]),
                 [op |-> "line_to", x |-> 0, y |-> h]),
                 [op |-> "clip_nonzero"]),
                 [op |-> "end_path"])
        ELSE y

\* write_image bracketed by the caching save_state and no restore
write_image_unbalanced(x, px, py, id, size) ==
    LET im == RemapperInsert(x.image_map, id)
    IN  Emit(Emit(save_state([x EXCEPT !.image_map = im]),
             [op |-> "transform", m |-> <<size[1], 0, 0, 0 - size[2], px, py + size[2]>>]),
             [op |-> "x_object", name |-> ImageName(RemapperMap(im, id))])

write_image(x, px, py, id, size) ==
    LET im == RemapperInsert(x.image_map, id)
        w == size[1]
        h == size[2]
    IN  Emit(Emit(Emit(Emit([x EXCEPT !.image_map = im],
             [op |-> "save_state"]),
             [op |-> "transform", m |-> <<w, 0, 0, 0 - h, px, py + h>>]),
             [op |-> "x_object", name |-> ImageName(RemapperMap(im, id))]),
             [op |-> "restore_state"])

SetMin(S) == CHOOSE m \in S : \A n \in S : m <= n

SetMax(S) == CHOOSE m \in S : \A n \in S : m >= n

\* write_link with y1 and y2 in the order of x1 and x2
write_link_min_first(x, pos, dest, size) ==
    LET pts == {PointTransform(p, x.state.transform) :
                  p \in {pos, <<pos[1] + size[1], pos[2]>>, <<pos[1], pos[2] + size[2]>>,
                         <<pos[1] + size[1], pos[2] + size[2]>>}}
        x1 == SetMin({p[1] : p \in pts})
        x2 == SetMax({p[1] : p \in pts})
        y1 == SetMin({p[2] : p \in pts})
        y2 == SetMax({p[2] : p \in pts})
    IN  [x EXCEPT !.links = Append(@, [dest |-> dest, rect |-> <<x1, y1, x2, y2>>])]

write_link(x, pos, dest, size) ==
    LET pts == {PointTransform(p, x.state.transform) :
                  p \in {pos, <<pos[1] + size[1], pos[2]>>, <<pos[1], pos[2] + size[2]>>,
                         <<pos[1] + size[1], pos[2] + size[2]>>}}
        x1 == SetMin({p[1] : p \in pts})
        x2 == SetMax({p[1] : p \in pts})
        y1 == SetMax({p[2] : p \in pts})
        y2 == SetMin({p[2] : p \in pts})
    IN  [x EXCEPT !.links = Append(@, [dest |-> dest, rect |-> <<x1, y1, x2, y2>>])]

RECURSIVE write_path(_, _, _, _)
write_path(x, px, py, path) ==
    IF path = <<>>
    THEN x
    ELSE LET e == Head(path)
             o == CASE e.kind = "MoveTo" ->
                         [op |-> "move_to", x |-> px + e.p[1], y |-> py + e.p[2]]
                    [] e.kind = "LineTo" ->
                         [op |-> "line_to", x |-> px + e.p[1], y |-> py + e.p[2]]
                    [] e.kind = "CubicTo" ->
                         [op |-> "cubic_to",
                          x1 |-> px + e.p1[1], y1 |-> py + e.p1[2],
                          x2 |-> px + e.p2[1], y2 |-> py + e.p2[2],
                          x3 |-> px + e.p3[1], y3 |-> py + e.p3[2]]
                    [] e.kind = "ClosePath" -> [op |-> "close_path"]
         IN  write_path(Emit(x, o), px, py, Tail(path))

\* write_shape that strokes whenever it fills
write_shape_always_strokes(x, px, py, shape) ==
    IF shape.fill = None /\ shape.stroke = None
    THEN x
    ELSE LET g == shape.geometry
             a == CASE g.kind = "rect" ->
                         IF g.a > 0 /\ g.b > 0
                         THEN Emit(x, [op |-> "rect", x |-> px, y |-> py, w |-> g.a, h |-> g.b])
                         ELSE x
                    [] g.kind = "line" ->
                         Emit(Emit(x, [op |-> "move_to", x |-> px, y |-> py]),
                              [op |-> "line_to", x |-> px + g.a, y |-> py + g.b])
                    [] g.kind = "path" -> write_path(x, px, py, g.a)
             b == IF shape.fill /= None THEN set_fill(a, shape.fill[1]) ELSE a
             c == IF shape.stroke /= None THEN set_stroke(b, shape.stroke[1]) ELSE b
         IN  CASE shape.fill /= None -> Emit(c, [op |-> "fill_nonzero_and_stroke"])
               [] shape.fill = None /\ shape.stroke /= None -> Emit(c, [op |-> "stroke"])

write_shape(x, px, py, shape) ==
    IF shape.fill = None /\ shape.stroke = None
    THEN x
    ELSE LET g == shape.geometry
             a == CASE g.kind = "rect" ->
                         IF g.a > 0 /\ g.b > 0
                         THEN Emit(x, [op |-> "rect", x |-> px, y |-> py, w |-> g.a, h |-> g.b])
                         ELSE x
                    [] g.kind = "line" ->
                         Emit(Emit(x, [op |-> "move_to", x |-> px, y |-> py]),
                              [op |-> "line_to", x |-> px + g.a, y |-> py + g.b])
                    [] g.kind = "path" -> write_path(x, px, py, g.a)
             b == IF shape.fill /= None THEN set_fill(a, shape.fill[1]) ELSE a
             c == IF shape.stroke /= None THEN set_stroke(b, shape.stroke[1]) ELSE b
         IN  CASE shape.fill /= None /\ shape.stroke = None -> Emit(c, [op |-> "fill_nonzero"])
               [] shape.fill = None /\ shape.stroke /= None -> Emit(c, [op |-> "stroke"])
               [] shape.fill /= None /\ shape.stroke /= None ->
                    Emit(c, [op |-> "fill_nonzero_and_stroke"])

\* the glyph loop with the low byte of each glyph id pushed first
RECURSIVE ShowGlyphsLowFirst(_, _, _)
ShowGlyphsLowFirst(face_id, glyphs, acc) ==
    IF glyphs = <<>>
    THEN IF acc.encoded /= <<>>
         THEN Append(acc.items, [show |-> acc.encoded])
         ELSE acc.items
    ELSE LET glyph == Head(glyphs)
             adj1 == acc.adjustment + glyph.x_offset
             flushed == IF adj1 /= 0 /\ acc.encoded /= <<>>
                        THEN Append(acc.items, [show |-> acc.encoded])
                        ELSE acc.items
             items == IF adj1 /= 0
                      THEN Append(flushed, [adjust |-> 0 - ToFontUnits(adj1)])
                      ELSE acc.items
             enc0 == IF adj1 /= 0 THEN <<>> ELSE acc.encoded
             adj2 == IF adj1 /= 0 THEN 0 ELSE adj1
             encoded == enc0 \o <<glyph.id % 256, (glyph.id \div 256) % 256>>
             advance == FaceAdvance(face_id, glyph.id)
             adj3 == IF advance /= None THEN adj2 + (glyph.x_advance - advance[1]) ELSE adj2
         IN  ShowGlyphsLowFirst(face_id, Tail(glyphs),
                                [items |-> items, adjustment |-> adj3 - glyph.x_offset,
                                 encoded |-> encoded])

\* the glyph loop without the reset of the adjustment after it is emitted
RECURSIVE ShowGlyphsNoReset(_, _, _)
ShowGlyphsNoReset(face_id, glyphs, acc) ==
    IF glyphs = <<>>
    THEN IF acc.encoded /= <<>>
         THEN Append(acc.items, [show |-> acc.encoded])
         ELSE acc.items
    ELSE LET glyph == Head(glyphs)
             adj1 == acc.adjustment + glyph.x_offset
             flushed == IF adj1 /= 0 /\ acc.encoded /= <<>>
                        THEN Append(acc.items, [show |-> acc.encoded])
                        ELSE acc.items
             items == IF adj1 /= 0
                      THEN Append(flushed, [adjust |-> 0 - ToFontUnits(adj1)])
                      ELSE acc.items
             enc0 == IF adj1 /= 0 THEN <<>> ELSE acc.encoded
             encoded == enc0 \o <<(glyph.id \div 256) % 256, glyph.id % 256>>
             advance == FaceAdvance(face_id, glyph.id)
             adj3 == IF advance /= None THEN adj1 + (glyph.x_advance - advance[1]) ELSE adj1
         IN  ShowGlyphsNoReset(face_id, Tail(glyphs),
                               [items |-> items, adjustment |-> adj3 - glyph.x_offset,
                                encoded |-> encoded])

\* the glyph loop of write_text; acc holds items, adjustment and encoded
RECURSIVE ShowGlyphs(_, _, _)
ShowGlyphs(face_id, glyphs, acc) ==
    IF glyphs = <<>>
    THEN IF acc.encoded /= <<>>
         THEN Append(acc.items, [show |-> acc.encoded])
         ELSE acc.items
    ELSE LET glyph == Head(glyphs)
             adj1 == acc.adjustment + glyph.x_offset
             flushed == IF adj1 /= 0 /\ acc.encoded /= <<>>
                        THEN Append(acc.items, [show |-> acc.encoded])
                        ELSE acc.items
             items == IF adj1 /= 0
                      THEN Append(flushed, [adjust |-> 0 - ToFontUnits(adj1)])
                      ELSE acc.items
             enc0 == IF adj1 /= 0 THEN <<>> ELSE acc.encoded
             adj2 == IF adj1 /= 0 THEN 0 ELSE adj1
             encoded == enc0 \o <<(glyph.id \div 256) % 256, glyph.id % 256>>
             advance == FaceAdvance(face_id, glyph.id)
             adj3 == IF advance /= None THEN adj2 + (glyph.x_advance - advance[1]) ELSE adj2
         IN  ShowGlyphs(face_id, Tail(glyphs),
                        [items |-> items, adjustment |-> adj3 - glyph.x_offset,
                         encoded |-> encoded])

GlyphIds(glyphs) == {glyphs[i].id : i \in DOMAIN glyphs}

\* the glyph set of the face is replaced, not extended
RegisterGlyphsOverwrite(x, text) ==
    [x EXCEPT !.glyphs = MapPut(@, text.face_id, GlyphIds(text.glyphs))]

\* the glyph set is extended only for a face that has one already
RegisterGlyphsExisting(x, text) ==
    IF text.face_id \in DOMAIN x.glyphs
    THEN [x EXCEPT !.glyphs[text.face_id] = @ \cup GlyphIds(text.glyphs)]
    ELSE x

\* self.glyphs.entry(face_id).or_default().extend(ids)
RegisterGlyphs(x, text) ==
    LET old == IF text.face_id \in DOMAIN x.glyphs THEN x.glyphs[text.face_id] ELSE {}
    IN  [x EXCEPT !.glyphs = MapPut(@, text.face_id, old \cup GlyphIds(text.glyphs))]

write_text(x, px, py, text) ==
    LET a == RegisterGlyphs(x, text)
        b == Emit(a, [op |-> "begin_text"])
        c == set_fill(set_font(b, text.face_id, text.size), text.fill)
        d == Emit(c, [op |-> "set_text_matrix", m |-> <<1, 0, 0, 0 - 1, px, py>>])
        items == ShowGlyphs(text.face_id, text.glyphs,
                            [items |-> <<>>, adjustment |-> 0, encoded |-> <<>>])
        e == Emit(d, [op |-> "show_positioned", items |-> items])
        n == Len(text.glyphs)
        langs == IF text.lang \in DOMAIN e.languages
                 THEN [e.languages EXCEPT ![text.lang] = @ + n]
                 ELSE MapPut(e.languages, text.lang, n)
    IN  Emit([e EXCEPT !.languages = langs], [op |-> "end_text"])

\* ------------------------------------------------------------ the table node
\* Sizing::Auto; a fixed track is its length in whole points
Auto == 0 - 1

\* the extent the layouter gives an auto track
AutoSize == 5

\* TrackSizings of zero to n fixed tracks
TrackArgs(n) == {[i \in 1 .. k |-> 2 + i] : k \in 0 .. n}

\* the arguments of table(): columns, rows, gutter, column-gutter, row-gutter
\* and the cells; an argument that is not given is None or the empty default
TableArgs ==
    [columns : TrackArgs(MaxTableCols),
     rows : TrackArgs(1),
     gutter : {<<>>, <<1>>},
     column_gutter : {None, Some(<<>>), Some(<<2>>)},
     row_gutter : {None, Some(<<>>), Some(<<2>>)},
     cells : {[i \in 1 .. n |-> i - 1] : n \in 0 .. MaxCells}]

\* construct with gutter taking precedence over the two specific gutters
construct_gutter_first(args) ==
    [tracks |-> [x |-> args.columns, y |-> args.rows],
     gutter |-> [x |-> IF args.gutter /= <<>> \/ args.column_gutter = None
                       THEN args.gutter ELSE args.column_gutter[1],
                 y |-> IF args.gutter /= <<>> \/ args.row_gutter = None
                       THEN args.gutter ELSE args.row_gutter[1]],
     cells |-> args.cells]

\* TableNode::construct
construct(args) ==
    [tracks |-> [x |-> args.columns, y |-> args.rows],
     gutter |-> [x |-> IF args.column_gutter /= None
                       THEN args.column_gutter[1] ELSE args.gutter,
                 y |-> IF args.row_gutter /= None
                       THEN args.row_gutter[1] ELSE args.gutter],
     cells |-> args.cells]

\* the sum of the first k extents
RECURSIVE Extent(_, _)
Extent(extents, k) == IF k = 0 THEN 0 ELSE Extent(extents, k - 1) + extents[k]

\* points: the offsets before, in between, and after the extents
Points(extents) == [k \in 1 .. Len(extents) + 1 |-> Extent(extents, k - 1)]

\* Celled<Option<Paint>>: no fill, one paint for all cells, or a function
Fills == {"none", "value", "func"}

\* the fill function of the documentation: (col, _) => if calc.odd(col) {..}
FillFunc(x, y) == IF x % 2 = 1 THEN Some("luma240") ELSE Some("white")

\* Celled::resolve
CelledResolve(fill, x, y) ==
    CASE fill = "none" -> None
      [] fill = "value" -> Some("silver")
      [] fill = "func" -> FillFunc(x, y)

\* the track at idx, else the last track, else the default
GetOr(tracks, idx, default) ==
    IF idx < Len(tracks) THEN tracks[idx + 1]
    ELSE IF tracks /= <<>> THEN Last(tracks) ELSE default

\* content tracks with a gutter track between each two when there is a gutter
UnifiedTracks(tracks, gutter, count, has_gutter) ==
    IF has_gutter
    THEN [k \in 1 .. 2 * count - 1 |->
            IF k % 2 = 1 THEN GetOr(tracks, (k - 1) \div 2, Auto)
            ELSE GetOr(gutter, (k - 2) \div 2, 0)]
    ELSE [k \in 1 .. count |-> GetOr(tracks, k - 1, Auto)]

\* GridLayouter::new: unify content and gutter tracks
GridLayouterNew(tracks, gutter, cells) ==
    LET c == Max(Len(tracks.x), 1)
        needed == (Len(cells) \div c) + Min(Len(cells) % c, 1)
        r == Max(Len(tracks.y), needed)
        has_gutter == gutter.x /= <<>> \/ gutter.y /= <<>>
    IN  [cells |-> cells, has_gutter |-> has_gutter,
         cols |-> UnifiedTracks(tracks.x, gutter.x, c, has_gutter),
         rows |-> UnifiedTracks(tracks.y, gutter.y, r, has_gutter)]

\* GridLayouter::cell: the cell at unified track position (x, y), if any
GridCell(g, x, y) ==
    LET idx == IF g.has_gutter
               THEN (y \div 2) * (1 + Len(g.cols) \div 2) + x \div 2
               ELSE y * Len(g.cols) + x
    IN  IF (g.has_gutter /\ (x % 2 /= 0 \/ y % 2 /= 0)) \/ idx >= Len(g.cells)
        THEN None
        ELSE Some(g.cells[idx + 1])

\* the extent of a resolved track
ResolveTrack(sizing) == IF sizing = Auto THEN AutoSize ELSE sizing

\* the frame of one region: every cell at the origin of its column and row
GridFrame(g, rcols, rows) ==
    LET C == Len(rcols)
        heights == [j \in DOMAIN rows |-> rows[j].height]
        slot(k) ==
            LET j == (k - 1) \div C + 1
                x == (k - 1) % C
                cell == GridCell(g, x, rows[j].y)
            IN  [pos |-> <<Extent(rcols, x), Extent(heights, j - 1)>>,
                 kind |-> IF cell = None THEN "empty" ELSE "cell",
                 size |-> <<rcols[x + 1], heights[j]>>,
                 cell |-> IF cell = None THEN 0 - 1 ELSE cell[1]]
        IsCell(e) == e.kind = "cell"
    IN  [size |-> <<Extent(rcols, C), Extent(heights, Len(heights))>>,
         elements |-> SelectSeq([k \in 1 .. C * Len(rows) |-> slot(k)], IsCell)]

\* GridLayouter::layout: the resolved columns and, per region, the rows
\* (height and unified row index) and the frame; the rows break after `split`
GridLayouterLayout(g, split) ==
    LET rcols == [k \in DOMAIN g.cols |-> ResolveTrack(g.cols[k])]
        pieces == [k \in DOMAIN g.rows |->
                     [height |-> ResolveTrack(g.rows[k]), y |-> k - 1]]
        rows == IF 0 < split /\ split < Len(pieces)
                THEN <<SubSeq(pieces, 1, split),
                       SubSeq(pieces, split + 1, Len(pieces))>>
                ELSE <<pieces>>
    IN  [cols |-> rcols, rows |-> rows,
         fragment |-> [f \in DOMAIN rows |-> GridFrame(g, rcols, rows[f])]]

\* Frame::prepend
Prepend(elements, element) == <<element>> \o elements

\* prepend the items one after the other
RECURSIVE PrependAll(_, _)
PrependAll(elements, items) ==
    IF items = <<>> THEN elements
    ELSE PrependAll(Prepend(elements, Head(items)), Tail(items))

\* cols = self.tracks.x.len().max(1)
TableCols(node) == Max(Len(node.tracks.x), 1)

\* the coordinates align.resolve gets for each cell of the row-major list
AlignCalls(node) ==
    [i \in 1 .. Len(node.cells) |->
        <<(i - 1) % TableCols(node), (i - 1) \div TableCols(node)>>]

\* the horizontal and the vertical lines of one frame, in the order drawn
TableLines(frame, rows, cols, stroke) ==
    IF stroke = None THEN <<>>
    ELSE LET thickness == stroke[1]
             half == thickness \div 2
             hs == Points([j \in DOMAIN rows |-> rows[j].height])
             vs == Points(cols)
         IN  [k \in DOMAIN hs |->
                [pos |-> <<0 - half, hs[k]>>, kind |-> "hline",
                 size |-> <<frame.size[1] + thickness, 0>>, cell |-> 0 - 1]]
             \o
             [k \in DOMAIN vs |->
                [pos |-> <<vs[k], 0 - half>>, kind |-> "vline",
                 size |-> <<0, frame.size[2] + thickness>>, cell |-> 0 - 1]]

\* the calls of fill.resolve for one frame, column by column, each with the
\* position and size of the background it decides
FillCalls(rows, cols, fill) ==
    LET R == Len(rows)
        heights == [j \in DOMAIN rows |-> rows[j].height]
    IN  [k \in 1 .. Len(cols) * R |->
           LET x == (k - 1) \div R
               j == ((k - 1) % R) + 1
           IN  [x |-> x, y |-> rows[j].y,
                pos |-> <<Extent(cols, x), Extent(heights, j - 1)>>,
                size |-> <<cols[x + 1], heights[j]>>,
                fill |-> CelledResolve(fill, x, rows[j].y)]]

\* the cell backgrounds of one frame, in the order drawn
TableBackgrounds(rows, cols, fill) ==
    LET calls == FillCalls(rows, cols, fill)
        Filled(c) == c.fill /= None
        filled == SelectSeq(calls, Filled)
    IN  [k \in DOMAIN filled |->
           [pos |-> filled[k].pos, kind |-> "rect", size |-> filled[k].size,
            cell |-> 0 - 1]]

\* the backgrounds prepended before the lines
DecorateLinesLast(frame, rows, cols, stroke, fill) ==
    PrependAll(PrependAll(frame.elements, TableBackgrounds(rows, cols, fill)),
               TableLines(frame, rows, cols, stroke))

\* the loop body of TableNode::layout: render the table lines, then the
\* cell backgrounds
Decorate(frame, rows, cols, stroke, fill) ==
    PrependAll(PrependAll(frame.elements, TableLines(frame, rows, cols, stroke)),
               TableBackgrounds(rows, cols, fill))

\* TableNode::layout
layout(node, stroke, fill, split) ==
    LET g == GridLayouterNew(node.tracks, node.gutter, node.cells)
        l == GridLayouterLayout(g, split)
    IN  [align_calls |-> AlignCalls(node),
         fill_calls |-> [f \in DOMAIN l.rows |-> FillCalls(l.rows[f], l.cols, fill)],
         cols |-> l.cols,
         rows |-> l.rows,
         fragment |-> [f \in DOMAIN l.fragment |->
                         [size |-> l.fragment[f].size,
                          elements |-> Decorate(l.fragment[f], l.rows[f], l.cols,
                                                stroke, fill)]]]

\* a table before its construction
TableNew == [pc |-> "new", args |-> None, node |-> None, styles |-> None, out |-> None]

\* ------------------------------------------------------------------- state
VARIABLES
    pc,             \* the exporter's position: build, page, resources,
                    \* pageobjs, done or panic
    frames,         \* the input consumed so far, one entry per frame
    depth,          \* the number of write_group calls that are open
    px,             \* the live PageExporter's own fields
    alloc,          \* PdfExporter.alloc
    allocs,         \* the references handed out by bump, in order
    pages,          \* PdfExporter.pages
    face_map,       \* PdfExporter.face_map
    face_refs,      \* PdfExporter.face_refs
    glyph_sets,     \* PdfExporter.glyph_sets
    image_map,      \* PdfExporter.image_map
    image_refs,     \* PdfExporter.image_refs
    failed,         \* the images whose encoding failed in write_images
    writer,         \* the indirect objects written to the PdfWriter, in order
    ws,             \* the locals of write_structure
    rm,             \* a Remapper exercised on its own
    rm_calls,       \* the keys passed to rm's insert, in order
    encodings,      \* encode_image exercised on its own: the images and results
    tbl             \* a TableNode: its arguments, the node and its layout

vars ==
    <<pc, frames, depth, px, alloc, allocs, pages, face_map, face_refs, glyph_sets,
      image_map, image_refs, failed, writer, ws, rm, rm_calls, encodings, tbl>>

exporterVars ==
    <<pc, frames, depth, px, alloc, allocs, pages, face_map, face_refs, glyph_sets,
      image_map, image_refs, failed, writer, ws>>

\* PdfExporter::new, before export is called
Init ==
    /\ pc = "build"
    /\ frames = <<>>
    /\ depth = 0
    /\ px = None
    /\ alloc = 1
    /\ allocs = <<>>
    /\ pages = <<>>
    /\ face_map = RemapperNew
    /\ face_refs = <<>>
    /\ glyph_sets = EmptyMap
    /\ image_map = RemapperNew
    /\ image_refs = <<>>
    /\ failed = {}
    /\ writer = <<>>
    /\ ws = None
    /\ rm = RemapperNew
    /\ rm_calls = <<>>
    /\ encodings = <<>>
    /\ tbl = TableNew

\* the PageExporter with the three tables it borrows from the exporter
PX ==
    [font_map |-> face_map, image_map |-> image_map, glyphs |-> glyph_sets,
     languages |-> px.languages, bottom |-> px.bottom, content |-> px.content,
     links |-> px.links, state |-> px.state, saves |-> px.saves, calls |-> px.calls]

Commit(y) ==
    /\ px' = [languages |-> y.languages, bottom |-> y.bottom, content |-> y.content,
              links |-> y.links, state |-> y.state, saves |-> y.saves, calls |-> y.calls]
    /\ face_map' = y.font_map
    /\ image_map' = y.image_map
    /\ glyph_sets' = y.glyphs

RECURSIVE SumLen(_)
SumLen(fs) ==
    IF fs = <<>>
    THEN 0
    ELSE Cardinality({i \in DOMAIN Head(fs).elements : Head(fs).elements[i].kind /= "end_group"})
         + SumLen(Tail(fs))

\* the next element of the current frame is recorded as consumed
Consume(e) ==
    frames' = [frames EXCEPT ![Len(frames)].elements = Append(@, e)]

MoreInput == SumLen(frames) < MaxElems

\* ------------------------------------------------------------- build_pages
\* the loop of build_pages takes the next frame: PageExporter::new and the
\* head of PageExporter::export
BeginPage(maxPages) ==
    /\ pc = "build"
    /\ Len(frames) < maxPages
    /\ LET size == FrameSize(Len(frames) + 1)
       IN  /\ frames' = Append(frames, [size |-> size, elements |-> <<>>])
           /\ Commit(export_begin(PageExporterNew(face_map, image_map, glyph_sets), size))
    /\ pc' = "page"
    /\ UNCHANGED <<depth, alloc, allocs, pages, face_refs, image_refs, failed,
                   writer, ws, rm, rm_calls, encodings, tbl>>

pageFrame == <<pc, depth, alloc, allocs, pages, face_refs, image_refs, failed,
               writer, ws, rm, rm_calls, encodings, tbl>>

WriteText(texts) ==
    /\ pc = "page"
    /\ MoreInput
    /\ \E text \in texts :
          /\ Consume([kind |-> "text", pos |-> ElemPos, text |-> text])
          /\ Commit(write_text(PX, ElemPos[1], ElemPos[2], text))
    /\ UNCHANGED pageFrame

WriteShape(shapes) ==
    /\ pc = "page"
    /\ MoreInput
    /\ \E shape \in shapes :
          /\ Consume([kind |-> "shape", pos |-> ElemPos, shape |-> shape])
          /\ Commit(write_shape(PX, ElemPos[1], ElemPos[2], shape))
    /\ UNCHANGED pageFrame

WriteImage(ids) ==
    /\ pc = "page"
    /\ MoreInput
    /\ \E id \in ids :
          /\ Consume([kind |-> "image", pos |-> ElemPos, id |-> id, size |-> ImageSize])
          /\ Commit(write_image(PX, ElemPos[1], ElemPos[2], id, ImageSize))
    /\ UNCHANGED pageFrame

WriteLink ==
    /\ pc = "page"
    /\ MoreInput
    /\ \E dest \in {[kind |-> "Url", uri |-> u, page |-> 0, pos |-> <<0, 0>>] : u \in Urls}
                   \cup {[kind |-> "Internal", uri |-> "", page |-> p, pos |-> LinkPos] :
                           p \in LinkPages} :
          /\ Consume([kind |-> "link", pos |-> ElemPos, dest |-> dest, size |-> LinkSize])
          /\ Commit(write_link(PX, ElemPos, dest, LinkSize))
    /\ UNCHANGED pageFrame

\* Element::Pin(_) => {}
WritePin ==
    /\ pc = "page"
    /\ MoreInput
    /\ Consume([kind |-> "pin", pos |-> ElemPos])
    /\ UNCHANGED <<px, face_map, image_map, glyph_sets>>
    /\ UNCHANGED pageFrame

\* write_group up to its call of write_frame
EnterGroup(groups) ==
    /\ pc = "page"
    /\ MoreInput
    /\ depth < MaxDepth
    /\ \E group \in groups :
          /\ Consume([kind |-> "group", pos |-> ElemPos, group |-> group])
          /\ Commit(write_group_begin(PX, ElemPos, group))
    /\ depth' = depth + 1
    /\ UNCHANGED <<pc, alloc, allocs, pages, face_refs, image_refs, failed,
                   writer, ws, rm, rm_calls, encodings, tbl>>

\* the frame of the innermost group is exhausted: write_frame returns and
\* write_group restores the state
ExitGroup ==
    /\ pc = "page"
    /\ depth > 0
    /\ Consume([kind |-> "end_group"])
    /\ depth' = depth - 1
    /\ IF px.saves = <<>>
       THEN /\ pc' = "panic"
            /\ UNCHANGED <<px, face_map, image_map, glyph_sets>>
       ELSE /\ pc' = pc
            /\ Commit(restore_state(PX))
    /\ UNCHANGED <<alloc, allocs, pages, face_refs, image_refs, failed,
                   writer, ws, rm, rm_calls, encodings, tbl>>

\* the top-level frame is exhausted: export returns the Page and build_pages
\* pushes it
FinishPage ==
    /\ pc = "page"
    /\ depth = 0
    /\ pages' = Append(pages, [size |-> Last(frames).size, content |-> px.content,
                               links |-> px.links, languages |-> px.languages])
    /\ px' = None
    /\ pc' = "build"
    /\ UNCHANGED <<frames, depth, alloc, allocs, face_map, face_refs, glyph_sets,
                   image_map, image_refs, failed, writer, ws, rm, rm_calls, encodings, tbl>>

\* there is no further frame: build_pages returns and write_fonts starts
BuildDone ==
    /\ pc = "build"
    /\ pc' = "resources"
    /\ UNCHANGED <<frames, depth, px, alloc, allocs, pages, face_map, face_refs,
                   glyph_sets, image_map, image_refs, failed, writer, ws, rm, rm_calls, encodings, tbl>>

\* -------------------------------------------------------------- write_fonts
\* a bump that returns the reference after the increment
BumpedAfter(a, n) == [i \in 1 .. n |-> a + i]

\* RefExt::bump n times from allocator value a: the references handed out
Bumped(a, n) == [i \in 1 .. n |-> a + i - 1]

\* the five objects of one face: type0_ref, cid_ref, descriptor_ref, cmap_ref,
\* data_ref; the cmap and the subset are cut down to the glyph set
FontObjects(face_id, refs, glyphs) ==
    <<[kind |-> "type0_font", id |-> refs[1], face |-> face_id,
       descendant_font |-> refs[2], to_unicode |-> refs[4]],
      [kind |-> "cid_font", id |-> refs[2], face |-> face_id, font_descriptor |-> refs[3]],
      [kind |-> "font_descriptor", id |-> refs[3], face |-> face_id, font_file |-> refs[5]],
      [kind |-> "cmap", id |-> refs[4], face |-> face_id, glyphs |-> glyphs,
       filter |-> "FlateDecode"],
      [kind |-> "font_file", id |-> refs[5], face |-> face_id, glyphs |-> glyphs,
       filter |-> "FlateDecode"]>>

\* one iteration of the loop over face_map.layout_indices()
WriteFont ==
    /\ pc = "resources"
    /\ Len(face_refs) < Len(LayoutIndices(face_map))
    /\ LET face_id == LayoutIndices(face_map)[Len(face_refs) + 1]
           refs == Bumped(alloc, 5)
       IN  /\ alloc' = alloc + 5
           /\ allocs' = allocs \o refs
           /\ face_refs' = Append(face_refs, refs[1])
           /\ IF face_id \in DOMAIN glyph_sets
              THEN /\ writer' = writer \o FontObjects(face_id, refs, glyph_sets[face_id])
                   /\ pc' = pc
              ELSE /\ writer' = writer
                   /\ pc' = "panic"
    /\ UNCHANGED <<frames, depth, px, pages, face_map, glyph_sets, image_map, image_refs, failed,
                   ws, rm, rm_calls, encodings, tbl>>

\* ------------------------------------------------------------- write_images
\* DynamicImage::color().has_alpha()
HasAlpha(color) == color \in {"la8", "rgba8", "la16", "rgba16"}

\* encode_image without the arm of the 8-bit gray PNG
encode_image_no_gray_png(img, fails) ==
    CASE img.format = "jpeg" /\ img.color = "l8" ->
            IF fails THEN [ok |-> FALSE]
            ELSE [ok |-> TRUE, data |-> "jpeg", filter |-> "DctDecode", has_color |-> FALSE]
      [] img.format = "jpeg" /\ img.color = "rgb8" ->
            IF fails THEN [ok |-> FALSE]
            ELSE [ok |-> TRUE, data |-> "jpeg", filter |-> "DctDecode", has_color |-> TRUE]
      [] OTHER ->
            [ok |-> TRUE, data |-> "deflate(rgb)", filter |-> "FlateDecode",
             has_color |-> TRUE]

\* encode_image; only the JPEG arms can fail (write_to(...)?)
encode_image(img, fails) ==
    CASE img.format = "jpeg" /\ img.color = "l8" ->
            IF fails THEN [ok |-> FALSE]
            ELSE [ok |-> TRUE, data |-> "jpeg", filter |-> "DctDecode", has_color |-> FALSE]
      [] img.format = "jpeg" /\ img.color = "rgb8" ->
            IF fails THEN [ok |-> FALSE]
            ELSE [ok |-> TRUE, data |-> "jpeg", filter |-> "DctDecode", has_color |-> TRUE]
      [] img.format = "png" /\ img.color = "l8" ->
            [ok |-> TRUE, data |-> "deflate(luma)", filter |-> "FlateDecode",
             has_color |-> FALSE]
      [] OTHER ->
            [ok |-> TRUE, data |-> "deflate(rgb)", filter |-> "FlateDecode",
             has_color |-> TRUE]

CanFail(img) == img.format = "jpeg" /\ img.color \in {"l8", "rgb8"}

\* the primary image names itself as its soft mask
RasterObjectsSelfMask(image_id, img, image_ref, mask_ref, enc) ==
    IF enc.ok
    THEN LET primary ==
                 [kind |-> "image", id |-> image_ref, image |-> image_id,
                  data |-> enc.data, filter |-> enc.filter,
                  width |-> img.width, height |-> img.height, bits_per_component |-> 8,
                  color_space |-> IF enc.has_color THEN "DeviceRGB" ELSE "DeviceGray",
                  s_mask |-> IF HasAlpha(img.color) THEN Some(image_ref) ELSE None]
         IN  IF HasAlpha(img.color)
             THEN <<primary,
                    [kind |-> "image", id |-> mask_ref, image |-> image_id,
                     data |-> "deflate(alpha)", filter |-> "FlateDecode",
                     width |-> img.width, height |-> img.height, bits_per_component |-> 8,
                     color_space |-> "DeviceGray", s_mask |-> None]>>
             ELSE <<primary>>
    ELSE <<[kind |-> "image", id |-> image_ref, image |-> image_id,
            data |-> "", filter |-> "", width |-> 0, height |-> 0,
            bits_per_component |-> 1, color_space |-> "DeviceGray", s_mask |-> None]>>

\* the placeholder of a failed encoding keeps the image's width and height
RasterObjectsSizedPlaceholder(image_id, img, image_ref, mask_ref, enc) ==
    IF enc.ok
    THEN LET primary ==
                 [kind |-> "image", id |-> image_ref, image |-> image_id,
                  data |-> enc.data, filter |-> enc.filter,
                  width |-> img.width, height |-> img.height, bits_per_component |-> 8,
                  color_space |-> IF enc.has_color THEN "DeviceRGB" ELSE "DeviceGray",
                  s_mask |-> IF HasAlpha(img.color) THEN Some(mask_ref) ELSE None]
         IN  IF HasAlpha(img.color)
             THEN <<primary,
                    [kind |-> "image", id |-> mask_ref, image |-> image_id,
                     data |-> "deflate(alpha)", filter |-> "FlateDecode",
                     width |-> img.width, height |-> img.height, bits_per_component |-> 8,
                     color_space |-> "DeviceGray", s_mask |-> None]>>
             ELSE <<primary>>
    ELSE <<[kind |-> "image", id |-> image_ref, image |-> image_id,
            data |-> "", filter |-> "", width |-> img.width, height |-> img.height,
            bits_per_component |-> 1, color_space |-> "DeviceGray", s_mask |-> None]>>

\* the objects written for one raster image; mask_ref is used only when the
\* image encodes and has an alpha channel
RasterObjects(image_id, img, image_ref, mask_ref, enc) ==
    IF enc.ok
    THEN LET primary ==
                 [kind |-> "image", id |-> image_ref, image |-> image_id,
                  data |-> enc.data, filter |-> enc.filter,
                  width |-> img.width, height |-> img.height, bits_per_component |-> 8,
                  color_space |-> IF enc.has_color THEN "DeviceRGB" ELSE "DeviceGray",
                  s_mask |-> IF HasAlpha(img.color) THEN Some(mask_ref) ELSE None]
         IN  IF HasAlpha(img.color)
             THEN <<primary,
                    [kind |-> "image", id |-> mask_ref, image |-> image_id,
                     data |-> "deflate(alpha)", filter |-> "FlateDecode",
                     width |-> img.width, height |-> img.height, bits_per_component |-> 8,
                     color_space |-> "DeviceGray", s_mask |-> None]>>
             ELSE <<primary>>
    ELSE <<[kind |-> "image", id |-> image_ref, image |-> image_id,
            data |-> "", filter |-> "", width |-> 0, height |-> 0,
            bits_per_component |-> 1, color_space |-> "DeviceGray", s_mask |-> None]>>

\* svg2pdf::convert_tree_into: writes n objects from image_ref on and returns
\* the next free reference
SvgObjects(image_id, image_ref, n) ==
    [i \in 1 .. n |-> [kind |-> "svg", id |-> image_ref + i - 1, image |-> image_id]]

\* one iteration of the loop over image_map.layout_indices()
WriteImageObject ==
    /\ pc = "resources"
    /\ Len(face_refs) = Len(LayoutIndices(face_map))
    /\ Len(image_refs) < Len(LayoutIndices(image_map))
    /\ LET image_id == LayoutIndices(image_map)[Len(image_refs) + 1]
           img == Images[image_id]
           image_ref == Bumped(alloc, 1)[1]
       IN  /\ image_refs' = Append(image_refs, image_ref)
           /\ IF img.kind = "raster"
              THEN \E fails \in {FALSE, CanFail(img)} :
                      LET enc == encode_image(img, fails)
                          \* let mask_ref = self.alloc.bump() in the alpha arm
                          n == IF enc.ok /\ HasAlpha(img.color) THEN 2 ELSE 1
                      IN  /\ writer' = writer \o RasterObjects(image_id, img, image_ref,
                                                               Bumped(alloc, 2)[2], enc)
                          /\ alloc' = alloc + n
                          /\ allocs' = allocs \o Bumped(alloc, n)
                          /\ failed' = IF enc.ok THEN failed ELSE failed \cup {image_id}
              ELSE \E n \in {1, MaxSvgObjects} :
                      /\ writer' = writer \o SvgObjects(image_id, image_ref, n)
                      /\ alloc' = image_ref + n
                      /\ allocs' = Append(allocs, image_ref)
                      /\ UNCHANGED failed
    /\ UNCHANGED <<pc, frames, depth, px, pages, face_map, face_refs, glyph_sets,
                   image_map, ws, rm, rm_calls, encodings, tbl>>

\* ---------------------------------------------------------- write_structure
\* deflate, kept apart from its argument
deflate(data) == [deflated |-> data]

\* the head of write_structure: the page tree reference and one reference
\* per page, with the page heights
StructureBegin ==
    /\ pc = "resources"
    /\ Len(face_refs) = Len(LayoutIndices(face_map))
    /\ Len(image_refs) = Len(LayoutIndices(image_map))
    /\ LET n == Len(pages)
           refs == Bumped(alloc, 1 + n)
       IN  /\ ws' = [page_tree_ref |-> refs[1],
                     page_refs |-> [i \in 1 .. n |-> refs[i + 1]],
                     page_heights |-> [i \in 1 .. n |-> pages[i].size[2]],
                     languages |-> EmptyMap,
                     next |-> 1]
           /\ alloc' = alloc + 1 + n
           /\ allocs' = allocs \o refs
    /\ pc' = "pageobjs"
    /\ UNCHANGED <<frames, depth, px, pages, face_map, face_refs, glyph_sets, image_map,
                   image_refs, failed, writer, rm, rm_calls, encodings, tbl>>

\* usize::MAX, as far as the model's integers reach
UsizeMax == 2147483647

\* loc.page.saturating_sub(1)
LinkIndexSaturating(page) == IF page = 0 THEN 0 ELSE page - 1

\* let index = loc.page - 1 on usize: page 0 wraps to usize::MAX in a release
\* build and panics in a debug build
LinkIndex(page) == IF page = 0 THEN UsizeMax ELSE page - 1

\* the destination that takes the height of the page holding the link
AnnotationOwnHeight(link, page_refs, page_heights, own) ==
    IF link.dest.kind = "Url"
    THEN [subtype |-> "Link", rect |-> link.rect, action_type |-> "Uri",
          uri |-> link.dest.uri, page |-> 0, xyz |-> <<>>]
    ELSE LET index == LinkIndex(link.dest.page)
         IN  [subtype |-> "Link", rect |-> link.rect, action_type |-> "GoTo", uri |-> "",
              page |-> page_refs[index + 1],
              xyz |-> <<link.dest.pos[1], page_heights[own] - link.dest.pos[2], None>>]

\* one link annotation; own is the index of the page that holds the link
Annotation(link, page_refs, page_heights, own) ==
    IF link.dest.kind = "Url"
    THEN [subtype |-> "Link", rect |-> link.rect, action_type |-> "Uri",
          uri |-> link.dest.uri, page |-> 0, xyz |-> <<>>]
    ELSE LET index == LinkIndex(link.dest.page)
             height == page_heights[index + 1]
         IN  [subtype |-> "Link", rect |-> link.rect, action_type |-> "GoTo", uri |-> "",
              page |-> page_refs[index + 1],
              xyz |-> <<link.dest.pos[1], height - link.dest.pos[2], None>>]

\* page_heights[index] and page_refs[index] are in bounds.  For page 0 the
\* usize subtraction panics in a debug build and wraps to usize::MAX in a
\* release build, an index no vector reaches: both builds panic
LinkInBounds(link, n) ==
    link.dest.kind = "Internal" => LinkIndex(link.dest.page) < n

\* a page object whose media box has width and height swapped
PageObjectSwapped(page, page_id, page_tree_ref, content_id, annotations) ==
    [kind |-> "page", id |-> page_id, parent |-> page_tree_ref,
     media_box |-> <<0, 0, page.size[2], page.size[1]>>,
     contents |-> content_id, annotations |-> annotations]

\* the page object: parent, media_box, contents and annotations
PageObject(page, page_id, page_tree_ref, content_id, annotations) ==
    [kind |-> "page", id |-> page_id, parent |-> page_tree_ref,
     media_box |-> <<0, 0, page.size[1], page.size[2]>>,
     contents |-> content_id, annotations |-> annotations]

\* the sum over pages replaced by the count of the last page that has the language
RECURSIVE AddLanguagesOverwrite(_, _, _)
AddLanguagesOverwrite(total, langs, todo) ==
    IF todo = {}
    THEN total
    ELSE LET lang == CHOOSE l \in todo : TRUE
             t == IF lang \in DOMAIN total
                  THEN [total EXCEPT ![lang] = langs[lang]]
                  ELSE MapPut(total, lang, langs[lang])
         IN  AddLanguagesOverwrite(t, langs, todo \ {lang})

\* languages.entry(lang).and_modify(|x| *x += count).or_insert_with(|| count)
RECURSIVE AddLanguages(_, _, _)
AddLanguages(total, langs, todo) ==
    IF todo = {}
    THEN total
    ELSE LET lang == CHOOSE l \in todo : TRUE
             t == IF lang \in DOMAIN total
                  THEN [total EXCEPT ![lang] = @ + langs[lang]]
                  ELSE MapPut(total, lang, langs[lang])
         IN  AddLanguages(t, langs, todo \ {lang})

\* one iteration of the loop over the pages zipped with page_refs
WritePageObject ==
    /\ pc = "pageobjs"
    /\ ws.next <= Len(pages)
    /\ LET i == ws.next
           page == pages[i]
           content_id == Bumped(alloc, 1)[1]
           n == Len(pages)
           ok == \A k \in DOMAIN page.links : LinkInBounds(page.links[k], n)
       IN  /\ alloc' = alloc + 1
           /\ allocs' = Append(allocs, content_id)
           /\ IF ok
              THEN /\ writer' = writer \o
                        <<PageObject(page, ws.page_refs[i], ws.page_tree_ref, content_id,
                                     [k \in DOMAIN page.links |->
                                         Annotation(page.links[k], ws.page_refs,
                                                    ws.page_heights, i)]),
                          [kind |-> "stream", id |-> content_id,
                           data |-> deflate(page.content), filter |-> "FlateDecode"]>>
                   /\ ws' = [ws EXCEPT !.next = i + 1,
                                       !.languages = AddLanguages(@, page.languages,
                                                                  DOMAIN page.languages)]
                   /\ pc' = pc
              ELSE \* indexing page_heights panics; the page object is unfinished
                   /\ writer' = writer
                   /\ ws' = ws
                   /\ pc' = "panic"
    /\ UNCHANGED <<frames, depth, px, pages, face_map, face_refs, glyph_sets, image_map,
                   image_refs, failed, rm, rm_calls, encodings, tbl>>

\* resource dictionary whose names are numbered from one
ResourcePairsOffByOne(r, refs, prefix) ==
    LET ps == PdfIndices(r, refs)
    IN  [i \in DOMAIN ps |-> [name |-> <<prefix, ps[i][2] + 1>>, ref |-> ps[i][1]]]

\* the (name, reference) pairs of the fonts and x_objects dictionaries
ResourcePairs(r, refs, prefix) ==
    LET ps == PdfIndices(r, refs)
    IN  [i \in DOMAIN ps |-> [name |-> <<prefix, ps[i][2]>>, ref |-> ps[i][1]]]

\* the languages max_by can return: the HashMap iterates in any order
MaxLanguages(languages) ==
    {l \in DOMAIN languages : \A m \in DOMAIN languages : languages[m] <= languages[l]}

\* the direction follows the presence of a language, not its script
DirectionOfAnyLanguage(lang) == IF lang /= None THEN "R2L" ELSE "L2R"

\* if lang.map(Lang::dir) == Some(Dir::RTL) { R2L } else { L2R }
Direction(lang) == IF lang /= None /\ LangDir(lang[1]) = "RTL" THEN "R2L" ELSE "L2R"

\* the rest of write_structure: page tree, resources, info and catalog
Finish ==
    /\ pc = "pageobjs"
    /\ ws.next > Len(pages)
    /\ \E lang \in IF DOMAIN ws.languages = {}
                   THEN {None}
                   ELSE {Some(l) : l \in MaxLanguages(ws.languages)} :
          LET dir == Direction(lang)
              refs == Bumped(alloc, 2)
          IN  writer' = writer \o
                 <<[kind |-> "pages", id |-> ws.page_tree_ref,
                    count |-> Len(ws.page_refs), kids |-> ws.page_refs,
                    color_spaces |-> <<SRGB, SRGB_GRAY>>,
                    fonts |-> ResourcePairs(face_map, face_refs, "F"),
                    x_objects |-> ResourcePairs(image_map, image_refs, "Im")],
                   [kind |-> "document_info", id |-> refs[1], creator |-> "Typst"],
                   [kind |-> "catalog", id |-> refs[2], pages |-> ws.page_tree_ref,
                    direction |-> dir, lang |-> lang]>>
    /\ alloc' = alloc + 2
    /\ allocs' = allocs \o Bumped(alloc, 2)
    /\ pc' = "done"
    /\ UNCHANGED <<frames, depth, px, pages, face_map, face_refs, glyph_sets, image_map,
                   image_refs, failed, ws, rm, rm_calls, encodings, tbl>>

\* ------------------------------------------------------- Remapper on its own
RemapKeys == 1 .. MaxKey

RemapInsert ==
    /\ Len(rm_calls) < MaxInserts
    /\ \E k \in RemapKeys :
          /\ rm' = RemapperInsert(rm, k)
          /\ rm_calls' = Append(rm_calls, k)
    /\ UNCHANGED <<exporterVars, encodings, tbl>>

\* ---------------------------------------------------- encode_image on its own
\* ImageFormat: JPEG, PNG and one of the others
ImageFormats == {"jpeg", "png", "gif"}

\* the variants of DynamicImage
PixelKinds == {"l8", "la8", "rgb8", "rgba8", "l16", "la16", "rgb16", "rgba16"}

EncodeImage ==
    /\ Len(encodings) < MaxEncodes
    /\ \E format \in ImageFormats, color \in PixelKinds :
          LET img == [kind |-> "raster", format |-> format, color |-> color,
                      width |-> 2, height |-> 2]
          IN  \E fails \in {FALSE, CanFail(img)} :
                 encodings' = Append(encodings, [img |-> img, out |-> encode_image(img, fails)])
    /\ UNCHANGED <<exporterVars, rm, rm_calls, tbl>>

\* ------------------------------------------------------- the table node
\* table(..): the arguments are parsed into the node
TableConstruct ==
    /\ tbl.pc = "new"
    /\ \E args \in TableArgs :
          tbl' = [tbl EXCEPT !.pc = "node", !.args = args, !.node = construct(args)]
    /\ UNCHANGED <<exporterVars, rm, rm_calls, encodings>>

\* the rows of the table break after at most this many rows
Splits(node) ==
    0 .. Max(0, Len(GridLayouterNew(node.tracks, node.gutter, node.cells).rows) - 1)

\* the node is laid out under the styles in effect; the default stroke is given
\* a thickness of two points
TableLayout ==
    /\ tbl.pc = "node"
    /\ \E stroke \in {None, Some(2)}, fill \in Fills, split \in Splits(tbl.node) :
          tbl' = [tbl EXCEPT !.pc = "laid",
                             !.styles = [stroke |-> stroke, fill |-> fill],
                             !.out = layout(tbl.node, stroke, fill, split)]
    /\ UNCHANGED <<exporterVars, rm, rm_calls, encodings>>

\* ----------------------------------------------------------- specifications
DocShapes == {sh \in Shapes : sh.fill = Some(Red)}

DocGroups == {g \in Groups : g.clips}

\* the whole export, on frames of texts and images
Next ==
    \/ BeginPage(MaxPages)
    \/ WriteText(Texts)
    \/ WriteImage(ImageIds)
    \/ FinishPage
    \/ BuildDone
    \/ WriteFont
    \/ WriteImageObject
    \/ StructureBegin
    \/ WritePageObject
    \/ Finish

Spec == Init /\ [][Next]_vars

\* the whole export, on frames of texts and groups
NextFonts ==
    \/ BeginPage(MaxPages)
    \/ WriteText(Texts)
    \/ EnterGroup(DocGroups)
    \/ ExitGroup
    \/ FinishPage
    \/ BuildDone
    \/ WriteFont
    \/ StructureBegin
    \/ WritePageObject
    \/ Finish

SpecFonts == Init /\ [][NextFonts]_vars

\* the whole export, on frames of links, shapes and groups
NextLinks ==
    \/ BeginPage(MaxPages)
    \/ WriteShape(DocShapes)
    \/ WriteLink
    \/ EnterGroup(DocGroups)
    \/ ExitGroup
    \/ FinishPage
    \/ BuildDone
    \/ StructureBegin
    \/ WritePageObject
    \/ Finish

SpecLinks == Init /\ [][NextLinks]_vars

\* the page writer on one frame, with every kind of paint
NextPage ==
    \/ BeginPage(1)
    \/ WriteText(Texts)
    \/ WriteShape(Shapes)
    \/ WriteImage({1})
    \/ WritePin
    \/ EnterGroup(Groups)
    \/ ExitGroup
    \/ FinishPage

SpecPage == Init /\ [][NextPage]_vars

\* one page of shapes and groups
NextShapes ==
    \/ BeginPage(1)
    \/ WriteShape(Shapes)
    \/ EnterGroup(Groups)
    \/ ExitGroup
    \/ FinishPage

SpecShapes == Init /\ [][NextShapes]_vars

\* a group that turns its frame by a quarter
TurnedGroup ==
    [transform |-> [sx |-> 0, ky |-> 1, kx |-> 0 - 1, sy |-> 0, tx |-> 0, ty |-> 0],
     clips |-> FALSE, size |-> <<6, 6>>]

LinkGroups == DocGroups \cup {TurnedGroup}

\* one page of links, images and groups
NextLinkPage ==
    \/ BeginPage(1)
    \/ WriteLink
    \/ WriteImage({1})
    \/ EnterGroup(LinkGroups)
    \/ ExitGroup
    \/ FinishPage

SpecLinkPage == Init /\ [][NextLinkPage]_vars

NextRemapper == RemapInsert

SpecRemapper == Init /\ [][NextRemapper]_vars

NextEncode == EncodeImage

SpecEncode == Init /\ [][NextEncode]_vars

StrokedShapes == {sh \in Shapes : sh.stroke /= None}

\* the pages of a document of texts and stroked shapes
NextPages ==
    \/ BeginPage(MaxPages)
    \/ WriteText(Texts)
    \/ WriteShape(StrokedShapes)
    \/ FinishPage

SpecPages == Init /\ [][NextPages]_vars

\* one page of kerned texts
NextText ==
    \/ BeginPage(1)
    \/ WriteText(KernedTexts)
    \/ FinishPage

SpecText == Init /\ [][NextText]_vars

\* the table node on its own
NextTable == TableConstruct \/ TableLayout

SpecTable == Init /\ [][NextTable]_vars

\* ------------------------------------------------------------------ claims
Range(f) == {f[i] : i \in DOMAIN f}

\* the written objects of one kind, and the written object with a given id
ObjectsOfKind(kinds) == {i \in DOMAIN writer : writer[i].kind \in kinds}

ObjectsWithId(id) == {i \in DOMAIN writer : writer[i].id = id}

PageTreeObject == writer[CHOOSE i \in DOMAIN writer : writer[i].kind = "pages"]

\* the content of a written stream, inflated
inflate(data) == data.deflated

\* the entries of a resource dictionary that carry a name
Entries(dict, name) == {e \in DOMAIN dict : dict[e].name = name}

\* C1: when the export has returned, every font name F{n} and image name
\* Im{n} used by an operator of any page's content stream has exactly one
\* entry of that name in the page tree's resources, and the entry refers to
\* the object written for the face (image) that the remapper numbered n.
C1_ResourceNamesResolve ==
    pc = "done" =>
        \A s \in ObjectsOfKind({"stream"}) :
            LET content == inflate(writer[s].data)
            IN  \A j \in DOMAIN content :
                    /\ content[j].op = "set_font" =>
                          /\ Cardinality(Entries(PageTreeObject.fonts, content[j].name)) = 1
                          /\ \A e \in Entries(PageTreeObject.fonts, content[j].name) :
                                \E o \in ObjectsWithId(PageTreeObject.fonts[e].ref) :
                                    /\ writer[o].kind = "type0_font"
                                    /\ content[j].name[1] = "F"
                                    /\ writer[o].face =
                                          face_map.to_layout[content[j].name[2] + 1]
                    /\ content[j].op = "x_object" =>
                          /\ Cardinality(Entries(PageTreeObject.x_objects, content[j].name)) = 1
                          /\ \A e \in Entries(PageTreeObject.x_objects, content[j].name) :
                                \E o \in ObjectsWithId(PageTreeObject.x_objects[e].ref) :
                                    /\ writer[o].kind \in {"image", "svg"}
                                    /\ content[j].name[1] = "Im"
                                    /\ writer[o].image =
                                          image_map.to_layout[content[j].name[2] + 1]

\* a finished export whose streams use the second font and an image
C1_Witness ==
    /\ pc = "done"
    /\ \E s \in ObjectsOfKind({"stream"}) :
          \E j \in DOMAIN inflate(writer[s].data) :
              /\ inflate(writer[s].data)[j].op = "set_font"
              /\ inflate(writer[s].data)[j].name = FontName(1)
    /\ \E s \in ObjectsOfKind({"stream"}) :
          \E j \in DOMAIN inflate(writer[s].data) :
              inflate(writer[s].data)[j].op = "x_object"

\* the glyph ids that the text elements of the input show with a face
RECURSIVE ShownGlyphs(_, _)
ShownGlyphs(fs, face_id) ==
    IF fs = <<>>
    THEN {}
    ELSE LET es == Head(fs).elements
         IN  UNION {IF es[i].kind = "text" /\ es[i].text.face_id = face_id
                    THEN GlyphIds(es[i].text.glyphs)
                    ELSE {} : i \in DOMAIN es}
             \cup ShownGlyphs(Tail(fs), face_id)

FontKinds == {"type0_font", "cid_font", "font_descriptor", "cmap", "font_file"}

\* C2: a font object is written only after build_pages has returned, every
\* frame being a finished page by then; the glyph set that the cmap and the
\* subset of a face were cut down to contains every glyph id any text
\* element (nested ones included) shows with the face, and it is still the
\* face's entry of glyph_sets in every later state.
C2_FontsAfterPages ==
    \A o \in ObjectsOfKind(FontKinds) :
        /\ pc \notin {"build", "page"}
        /\ Len(pages) = Len(frames)
        /\ writer[o].face \in DOMAIN glyph_sets
        /\ writer[o].kind \in {"cmap", "font_file"} =>
              /\ writer[o].glyphs = glyph_sets[writer[o].face]
              /\ ShownGlyphs(frames, writer[o].face) \subseteq writer[o].glyphs

\* a font written for a face that two text elements used with different
\* glyphs, one of them inside a group
C2_Witness ==
    /\ \E o \in ObjectsOfKind({"font_file"}) :
          /\ writer[o].face = 1
          /\ {9, 258} \subseteq writer[o].glyphs
    /\ \E i \in DOMAIN frames :
          \E j, k \in DOMAIN frames[i].elements :
              /\ j < k
              /\ frames[i].elements[j].kind = "group"
              /\ frames[i].elements[k].kind = "text"

\* C3: the references handed out start at 1 and strictly increase, also
\* across the SVG converter's update of the allocator; no two written objects
\* have the same id; and when the export has returned, the ids of the written
\* objects are exactly the numbers below the allocator, every reference handed
\* out among them.
C3_ReferencesUnique ==
    /\ allocs /= <<>> => allocs[1] = 1
    /\ \A i \in 1 .. Len(allocs) - 1 : allocs[i] < allocs[i + 1]
    /\ \A i \in DOMAIN allocs : allocs[i] < alloc
    /\ \A i, j \in DOMAIN writer : i /= j => writer[i].id /= writer[j].id
    /\ pc = "done" =>
          /\ {writer[i].id : i \in DOMAIN writer} = 1 .. alloc - 1
          /\ Range(allocs) \subseteq {writer[i].id : i \in DOMAIN writer}

\* a finished export in which the SVG converter took more than one reference
\* and an image with a soft mask followed it
C3_Witness ==
    /\ pc = "done"
    /\ Len(allocs) < alloc - 1
    /\ \E i, j \in ObjectsOfKind({"svg", "image"}) :
          /\ i < j
          /\ writer[i].kind = "svg"
          /\ writer[j].kind = "image"

SetRequests == {"font", "fill", "stroke"}

\* requests i < j of the live page writer form a run: same kind, same value,
\* no save or restore and no request of that kind with another value between
SameRun(calls, i, j) ==
    /\ i < j
    /\ calls[i].kind \in SetRequests
    /\ calls[j].kind = calls[i].kind
    /\ calls[j].value = calls[i].value
    /\ \A k \in i + 1 .. j - 1 :
          /\ calls[k].kind \notin {"save", "restore"}
          /\ calls[k].kind = calls[i].kind => calls[k].value = calls[i].value

\* C4: in a run of set_font, set_fill or set_stroke requests with one value
\* and no save or restore between them, every request after the first leaves
\* the content stream as it is.
C4_Minimality ==
    pc = "page" =>
        \A i, j \in DOMAIN px.calls :
            SameRun(px.calls, i, j) => px.calls[j].from = px.calls[j].to

\* a fill and a font each requested again with the value of a request that
\* emitted operators, the second text being followed by a shape
C4_Witness ==
    /\ pc = "page"
    /\ \E i, j \in DOMAIN px.calls :
          /\ SameRun(px.calls, i, j)
          /\ px.calls[i].kind = "fill"
          /\ px.calls[i].from < px.calls[i].to
          /\ j + 1 \in DOMAIN px.calls
          /\ px.calls[j + 1].kind = "stroke"
    /\ \E i, j \in DOMAIN px.calls :
          /\ SameRun(px.calls, i, j)
          /\ px.calls[i].kind = "font"
          /\ px.calls[i].from < px.calls[i].to

\* What a PDF interpreter holds while it executes a content stream: the
\* graphics state starts with DeviceGray for both colour spaces and no font;
\* q and Q save and restore it; cs and CS name a colour space; g, G, k and K
\* set a colour and, implicitly, the device colour space that goes with it.
InterpreterInit ==
    [cur |-> [font |-> None, fill_space |-> "DeviceGray", stroke_space |-> "DeviceGray"],
     stack |-> <<>>]

Execute(gs, o) ==
    CASE o.op = "save_state" -> [gs EXCEPT !.stack = Append(@, gs.cur)]
      [] o.op = "restore_state" ->
            IF gs.stack = <<>> THEN gs
            ELSE [cur |-> Last(gs.stack), stack |-> Front(gs.stack)]
      [] o.op = "set_font" -> [gs EXCEPT !.cur.font = Some(<<o.name, o.size>>)]
      [] o.op = "set_fill_color_space" -> [gs EXCEPT !.cur.fill_space = o.space]
      [] o.op = "set_fill_gray" -> [gs EXCEPT !.cur.fill_space = "DeviceGray"]
      [] o.op = "set_fill_cmyk" -> [gs EXCEPT !.cur.fill_space = "DeviceCMYK"]
      [] o.op = "set_stroke_color_space" -> [gs EXCEPT !.cur.stroke_space = o.space]
      [] o.op = "set_stroke_gray" -> [gs EXCEPT !.cur.stroke_space = "DeviceGray"]
      [] o.op = "set_stroke_cmyk" -> [gs EXCEPT !.cur.stroke_space = "DeviceCMYK"]
      [] OTHER -> gs

\* the interpreter's state after the first n operators of a content stream
RECURSIVE Interpret(_, _)
Interpret(content, n) ==
    IF n = 0 THEN InterpreterInit ELSE Execute(Interpret(content, n - 1), content[n])

\* C5 (as claimed): whenever the page writer emits an RGB colour operator,
\* for fill or for stroke, the colour space in effect at that point of the
\* emitted stream, as a PDF interpreter tracks it through colour-space
\* operators, the gray and CMYK operators and q/Q, is sRGB.
C5_RgbOperatorUnderSRGB ==
    pc = "page" =>
        \A n \in DOMAIN px.content :
            /\ px.content[n].op = "set_fill_color" =>
                  Interpret(px.content, n - 1).cur.fill_space = SRGB
            /\ px.content[n].op = "set_stroke_color" =>
                  Interpret(px.content, n - 1).cur.stroke_space = SRGB

\* the number of save_state operators minus the number of restore_state
\* operators among the first n operators of a content stream
RECURSIVE OpenSaves(_, _)
OpenSaves(content, n) ==
    IF n = 0
    THEN 0
    ELSE OpenSaves(content, n - 1)
         + (IF content[n].op = "save_state" THEN 1 ELSE 0)
         - (IF content[n].op = "restore_state" THEN 1 ELSE 0)

Balanced(content) ==
    /\ \A n \in 0 .. Len(content) : OpenSaves(content, n) >= 0
    /\ OpenSaves(content, Len(content)) = 0

RECURSIVE FirstOccurrences(_)
FirstOccurrences(calls) ==
    IF calls = <<>>
    THEN <<>>
    ELSE LET before == FirstOccurrences(Front(calls))
         IN  IF Last(calls) \in Range(before) THEN before ELSE Append(before, Last(calls))

\* C7: after any sequence of inserts, to_layout lists the inserted keys in
\* the order of their first insertion, to_pdf maps exactly the inserted keys,
\* injectively, onto 0 .. n-1 with to_layout[to_pdf[k]] = k, and inserting a
\* key that is present changes neither map.
C7_Remapper ==
    /\ rm.to_layout = FirstOccurrences(rm_calls)
    /\ DOMAIN rm.to_pdf = Range(rm_calls)
    /\ \A k \in DOMAIN rm.to_pdf :
          /\ rm.to_pdf[k] \in 0 .. Len(rm.to_layout) - 1
          /\ rm.to_layout[rm.to_pdf[k] + 1] = k
    /\ \A k, l \in DOMAIN rm.to_pdf : rm.to_pdf[k] = rm.to_pdf[l] => k = l
    /\ {rm.to_pdf[k] : k \in DOMAIN rm.to_pdf} = 0 .. Cardinality(DOMAIN rm.to_pdf) - 1
    /\ \A k \in DOMAIN rm.to_pdf : RemapperInsert(rm, k) = rm

\* three keys inserted, the first of them a second time at the end
C7_Witness ==
    /\ Len(rm_calls) = 4
    /\ rm_calls[4] = rm_calls[1]
    /\ Len(rm.to_layout) = 3

\* the link elements of a frame in the order the page writer meets them
LinksOf(frame) ==
    SelectSeq(frame.elements, LAMBDA e : e.kind = "link")

\* the written page object of the i-th page, once the head of
\* write_structure has allocated the page references
PageObjectsOf(i) ==
    {o \in ObjectsOfKind({"page"}) : writer[o].id = ws.page_refs[i]}

\* C8: when the export has returned, the page tree's Count is the number of
\* input frames and the length of Kids; Kids[i] is the id of exactly one
\* page object, whose MediaBox is [0 0 w_i h_i] for the size of frames[i],
\* whose Parent is the page tree and whose Contents is the stream holding
\* the content written for frames[i], a stream no other page refers to.
C8_PageTree ==
    pc = "done" =>
        LET tree == PageTreeObject
        IN  /\ tree.count = Len(frames)
            /\ Len(tree.kids) = Len(frames)
            /\ \A i \in DOMAIN tree.kids :
                  /\ Cardinality(ObjectsWithId(tree.kids[i])) = 1
                  /\ \A o \in ObjectsWithId(tree.kids[i]) :
                        /\ writer[o].kind = "page"
                        /\ writer[o].media_box =
                              <<0, 0, frames[i].size[1], frames[i].size[2]>>
                        /\ writer[o].parent = tree.id
                        /\ Len(writer[o].annotations) = Len(LinksOf(frames[i]))
                        /\ \E c \in ObjectsWithId(writer[o].contents) :
                              /\ writer[c].kind = "stream"
                              /\ inflate(writer[c].data) = pages[i].content
                        /\ \A p \in ObjectsOfKind({"page"}) :
                              writer[p].contents = writer[o].contents => p = o

\* a finished export of two frames of different sizes, the first with a
\* shape and the second with a link
C8_Witness ==
    /\ pc = "done"
    /\ Len(frames) = 2
    /\ frames[1].size /= frames[2].size
    /\ pages[1].content /= pages[2].content
    /\ LinksOf(frames[2]) /= <<>>

\* C9: the annotation written for the k-th link of frames[i], when its
\* destination is internal with page p and position pos, is a GoTo to the
\* reference of the p-th page with XYZ (pos.x, height of frames[p] - pos.y,
\* null), whatever page holds the link and whatever transform was in effect.
C9_InternalDestination ==
    pc \in {"pageobjs", "done"} =>
        \A i \in DOMAIN frames :
            \A o \in PageObjectsOf(i) :
                \A k \in DOMAIN writer[o].annotations :
                    LET dest == LinksOf(frames[i])[k].dest
                        ann == writer[o].annotations[k]
                    IN  dest.kind = "Internal" =>
                            /\ ann.action_type = "GoTo"
                            /\ ann.page = ws.page_refs[dest.page]
                            /\ ann.xyz = <<dest.pos[1],
                                           frames[dest.page].size[2] - dest.pos[2], None>>

\* a written link to page 2 that sits on page 1 inside a scaling group
C9_Witness ==
    /\ pc \in {"pageobjs", "done"}
    /\ \E o \in PageObjectsOf(1) :
          \E k \in DOMAIN writer[o].annotations :
              /\ writer[o].annotations[k].action_type = "GoTo"
              /\ LinksOf(frames[1])[k].dest.page = 2
              /\ writer[o].annotations[k].rect[3] - writer[o].annotations[k].rect[1]
                    = 2 * LinkSize[1]

\* the internal links of the input whose page number names no input frame
DanglingLinks ==
    UNION {{<<i, k>> : k \in {k \in DOMAIN LinksOf(frames[i]) :
                                /\ LinksOf(frames[i])[k].dest.kind = "Internal"
                                /\ LinksOf(frames[i])[k].dest.page \notin 1 .. Len(frames)}} :
           i \in DOMAIN frames}

\* C10: every GoTo annotation that is written targets the reference of one
\* of the pages, and an export whose frames hold an internal link to page 0
\* or to a page past the last frame never returns bytes: it has panicked by
\* the time the page objects are all written.
C10_NoDanglingDestination ==
    /\ \A o \in ObjectsOfKind({"page"}) :
          \A k \in DOMAIN writer[o].annotations :
              writer[o].annotations[k].action_type = "GoTo" =>
                  \E idx \in 0 .. Len(pages) - 1 :
                      writer[o].annotations[k].page = ws.page_refs[idx + 1]
    /\ pc = "done" => DanglingLinks = {}

\* the export has panicked at a page that links to page 0
C10_Witness ==
    /\ pc = "panic"
    /\ \E d \in DanglingLinks : LinksOf(frames[d[1]])[d[2]].dest.page = 0
    /\ ws /= None
    /\ ws.next \in {d[1] : d \in DanglingLinks}

\* the colours a paint is drawn from when set_fill and set_stroke are applied
\* to a reached page writer: two of each kind of colour
PaintColors ==
    {Luma(0), Luma(255), Rgba(255, 0, 0, 255), Rgba(0, 0, 255, 255),
     Cmyk(255, 0, 0, 0), Cmyk(0, 0, 0, 255)}

\* the operators a request appended to the content stream
Emitted(x, y) == SubSeq(y.content, Len(x.content) + 1, Len(y.content))

OpNames(ops) == [i \in DOMAIN ops |-> ops[i].op]

\* what the colour selection is to emit for a colour, given the cached
\* colour-space name: prefix is "set_fill" or "set_stroke"
ColorOps(prefix, color, cached) ==
    CASE color.kind = "luma" ->
            (IF cached /= Some(SRGB_GRAY) THEN <<prefix \o "_color_space">> ELSE <<>>)
            \o <<prefix \o "_gray">>
      [] color.kind = "rgba" ->
            (IF cached /= Some(SRGB) THEN <<prefix \o "_color_space">> ELSE <<>>)
            \o <<prefix \o "_color">>
      [] color.kind = "cmyk" -> <<prefix \o "_cmyk">>

\* the cached colour-space name after the selection
SpaceAfter(color, cached) ==
    CASE color.kind = "luma" -> Some(SRGB_GRAY)
      [] color.kind = "rgba" -> Some(SRGB)
      [] color.kind = "cmyk" -> cached

\* the named space of the colour-space operators among ops
SpacesNamed(ops) ==
    {ops[i].space : i \in {i \in DOMAIN ops :
                             ops[i].op \in {"set_fill_color_space", "set_stroke_color_space"}}}

\* C11: at every state the page writer reaches, selecting a colour other than
\* the cached paint, for fill or for stroke, emits for a luma colour the
\* colour space sRGBGray (unless it is the cached name) and the gray operator,
\* for an RGB(A) colour the colour space sRGB (unless it is the cached name)
\* and the rgb operator, for a CMYK colour the CMYK operator alone, the cached
\* name being left as it was; the stroke selection ends with the line width.
C11_ColorSelection ==
    pc = "page" =>
        \A color \in PaintColors :
            LET x == PX
                fill == Solid(color)
                stroke == [paint |-> Solid(color), thickness |-> 3]
                yf == set_fill(x, fill)
                ys == set_stroke(x, stroke)
            IN  /\ x.state.fill /= Some(fill) =>
                      /\ OpNames(Emitted(x, yf))
                            = ColorOps("set_fill", color, x.state.fill_space)
                      /\ yf.state.fill_space = SpaceAfter(color, x.state.fill_space)
                      /\ SpacesNamed(Emitted(x, yf)) \subseteq
                            {IF color.kind = "luma" THEN SRGB_GRAY ELSE SRGB}
                      /\ yf.state.stroke_space = x.state.stroke_space
                /\ x.state.stroke /= Some(stroke) =>
                      /\ OpNames(Emitted(x, ys))
                            = ColorOps("set_stroke", color, x.state.stroke_space)
                              \o <<"set_line_width">>
                      /\ ys.state.stroke_space = SpaceAfter(color, x.state.stroke_space)
                      /\ SpacesNamed(Emitted(x, ys)) \subseteq
                            {IF color.kind = "luma" THEN SRGB_GRAY ELSE SRGB}
                      /\ ys.state.fill_space = x.state.fill_space

\* a page writer that filled with CMYK after RGB and stroked with CMYK first:
\* the cached fill name is still sRGB and no stroke name is cached
C11_Witness ==
    /\ pc = "page"
    /\ px.state.fill = Some(Cyan)
    /\ px.state.fill_space = Some(SRGB)
    /\ px.state.stroke /= None
    /\ px.state.stroke[1].paint = Cyan
    /\ px.state.stroke_space = None

\* the glyphs of the text elements among es[1..n] that are in language lang
RECURSIVE GlyphsIn(_, _, _)
GlyphsIn(es, n, lang) ==
    IF n = 0
    THEN 0
    ELSE GlyphsIn(es, n - 1, lang)
         + (IF es[n].kind = "text" /\ es[n].text.lang = lang
            THEN Len(es[n].text.glyphs)
            ELSE 0)

\* the glyphs of the text elements of the frames fs[1..n], nested ones
\* included, that are in language lang
RECURSIVE GlyphTotal(_, _, _)
GlyphTotal(fs, n, lang) ==
    IF n = 0
    THEN 0
    ELSE GlyphTotal(fs, n - 1, lang)
         + GlyphsIn(fs[n].elements, Len(fs[n].elements), lang)

\* the languages of the text elements of the input
InputLanguages ==
    UNION {{frames[i].elements[k].text.lang :
              k \in {k \in DOMAIN frames[i].elements : frames[i].elements[k].kind = "text"}} :
           i \in DOMAIN frames}

CatalogObject == writer[CHOOSE i \in DOMAIN writer : writer[i].kind = "catalog"]

\* C12: when the export has returned, the catalog carries a language exactly
\* when the input has a text element, and that language is one of the input
\* whose number of glyphs, summed over the text elements of all pages with
\* the nested ones, is not exceeded by that of any other language.
C12_DocumentLanguage ==
    pc = "done" =>
        /\ (CatalogObject.lang = None) = (InputLanguages = {})
        /\ CatalogObject.lang /= None =>
              /\ CatalogObject.lang[1] \in InputLanguages
              /\ \A m \in InputLanguages :
                    GlyphTotal(frames, Len(frames), m)
                       <= GlyphTotal(frames, Len(frames), CatalogObject.lang[1])

\* a finished export whose language has fewer glyphs than the other one on
\* the first page, and wins by the text of a later page inside a group
C12_Witness ==
    /\ pc = "done"
    /\ CatalogObject.lang /= None
    /\ Len(frames) = 2
    /\ \E m \in InputLanguages :
          /\ GlyphTotal(frames, 1, CatalogObject.lang[1]) < GlyphTotal(frames, 1, m)
          /\ GlyphTotal(frames, 2, m) < GlyphTotal(frames, 2, CatalogObject.lang[1])
    /\ \E j, k \in DOMAIN frames[2].elements :
          /\ j < k
          /\ frames[2].elements[j].kind = "group"
          /\ frames[2].elements[k].kind = "text"

\* C13 (as claimed): the frames fix the document language and the direction:
\* when write_structure has summed the languages of all pages, max_by has one
\* language it can return, and so one direction, whatever order the map of
\* languages is iterated in.
C13_LanguageChoiceDetermined ==
    (pc = "pageobjs" /\ ws.next > Len(pages)) =>
        /\ Cardinality(MaxLanguages(ws.languages)) <= 1
        /\ Cardinality({LangDir(l) : l \in MaxLanguages(ws.languages)}) <= 1

\* the text elements among es, in order
IsText(e) == e.kind = "text"

TextElements(es) == SelectSeq(es, IsText)

\* the positions of the show-positioned operators of a content stream, in order
RECURSIVE ShowPositions(_, _)
ShowPositions(content, n) ==
    IF n = 0
    THEN <<>>
    ELSE IF content[n].op = "show_positioned"
         THEN Append(ShowPositions(content, n - 1), n)
         ELSE ShowPositions(content, n - 1)

\* the byte strings of a show-positioned array, concatenated in order
RECURSIVE ShownBytes(_)
ShownBytes(items) ==
    IF items = <<>>
    THEN <<>>
    ELSE (IF "show" \in DOMAIN Head(items) THEN Head(items).show ELSE <<>>)
         \o ShownBytes(Tail(items))

\* C14: on the page being written, the k-th show-positioned operator belongs
\* to the k-th text element: its byte strings, concatenated, have two bytes
\* per glyph, each byte below 256, and hi * 256 + lo is the glyph's id, in
\* the order of the glyph list; and the font a PDF interpreter has selected
\* at that operator is F{n}, n the remapped index of the element's face, at
\* the element's size.
C14_GlyphsShown ==
    pc = "page" =>
        LET ts == TextElements(Last(frames).elements)
            ps == ShowPositions(px.content, Len(px.content))
        IN  /\ Len(ps) = Len(ts)
            /\ \A k \in DOMAIN ts :
                  LET text == ts[k].text
                      bytes == ShownBytes(px.content[ps[k]].items)
                  IN  /\ Len(bytes) = 2 * Len(text.glyphs)
                      /\ \A b \in DOMAIN bytes : bytes[b] \in 0 .. 255
                      /\ \A g \in DOMAIN text.glyphs :
                            bytes[2 * g - 1] * 256 + bytes[2 * g] = text.glyphs[g].id
                      /\ text.face_id \in DOMAIN face_map.to_pdf
                      /\ Interpret(px.content, ps[k]).cur.font
                            = Some(<<FontName(RemapperMap(face_map, text.face_id)),
                                     text.size>>)

\* a page with a text of the second face whose array is split by an
\* adjustment, after a text that shows glyph 65535
C14_Witness ==
    /\ pc = "page"
    /\ \E j, k \in DOMAIN px.content :
          /\ j < k
          /\ px.content[j].op = "show_positioned"
          /\ px.content[k].op = "show_positioned"
          /\ \E i \in DOMAIN px.content[j].items :
                /\ "show" \in DOMAIN px.content[j].items[i]
                /\ px.content[j].items[i].show = <<255, 255>>
          /\ Cardinality({i \in DOMAIN px.content[k].items :
                            "show" \in DOMAIN px.content[k].items[i]}) = 2
          /\ Interpret(px.content, k).cur.font = Some(<<FontName(1), 12>>)

\* the positions in the writer of the objects written for an image
ObjectsOfImage(image_id) ==
    {i \in ObjectsOfKind({"image", "svg"}) : writer[i].image = image_id}

\* C15: for every raster image that write_images has dealt with: if its pixel
\* kind has an alpha channel, two objects are written for it, one right after
\* the other: the primary under the image's reference and the mask under the
\* next reference; the primary's SMask is the mask's reference; both have the
\* image's width and height; the mask is 8-bit DeviceGray FlateDecode and has
\* no mask itself. If the pixel kind has no alpha channel, one object is
\* written and it has no SMask.
C15_SoftMask ==
    \A n \in DOMAIN image_refs :
        LET image_id == LayoutIndices(image_map)[n]
            img == Images[image_id]
            os == ObjectsOfImage(image_id)
        IN  img.kind = "raster" =>
               IF HasAlpha(img.color)
               THEN \E p \in os :
                       /\ os = {p, p + 1}
                       /\ writer[p].id = image_refs[n]
                       /\ writer[p + 1].id = image_refs[n] + 1
                       /\ writer[p].s_mask = Some(writer[p + 1].id)
                       /\ writer[p].width = img.width
                       /\ writer[p].height = img.height
                       /\ writer[p + 1].width = img.width
                       /\ writer[p + 1].height = img.height
                       /\ writer[p + 1].bits_per_component = 8
                       /\ writer[p + 1].color_space = "DeviceGray"
                       /\ writer[p + 1].filter = "FlateDecode"
                       /\ writer[p + 1].s_mask = None
               ELSE /\ Cardinality(os) = 1
                    /\ \A p \in os : writer[p].s_mask = None /\ writer[p].id = image_refs[n]

\* the image with an alpha channel was written after the image without one
\* was encoded and written
C15_Witness ==
    /\ Len(image_refs) >= 2
    /\ \E p, q \in ObjectsOfKind({"image"}) :
          /\ p < q
          /\ writer[p].filter = "DctDecode"
          /\ writer[q].s_mask /= None
          /\ HasAlpha(Images[writer[q].image].color)
          /\ ~HasAlpha(Images[writer[p].image].color)

\* C16: the export does not panic after an encoding has failed; for an image
\* whose encoding failed one object is written, under the reference
\* write_images allocated for the image: it is 0 x 0, 1 bit per component,
\* DeviceGray, without data and without SMask; the next reference handed out
\* is not a mask of the image; and when the export has returned, the page
\* tree's entry Im{n} of the image refers to that object.
C16_EncodeFailurePlaceholder ==
    \A image_id \in failed :
        LET n == RemapperMap(image_map, image_id)
            os == ObjectsOfImage(image_id)
        IN  /\ pc /= "panic"
            /\ n + 1 \in DOMAIN image_refs
            /\ Cardinality(os) = 1
            /\ \A p \in os :
                  /\ writer[p].id = image_refs[n + 1]
                  /\ writer[p].width = 0
                  /\ writer[p].height = 0
                  /\ writer[p].bits_per_component = 1
                  /\ writer[p].color_space = "DeviceGray"
                  /\ writer[p].data = ""
                  /\ writer[p].s_mask = None
                  /\ \A q \in ObjectsOfKind({"image"}) :
                        writer[q].s_mask /= Some(image_refs[n + 1] + 1)
                  /\ \A q \in ObjectsWithId(image_refs[n + 1] + 1) : q \notin os
                  /\ pc = "done" =>
                        /\ Cardinality(Entries(PageTreeObject.x_objects, ImageName(n))) = 1
                        /\ \A e \in Entries(PageTreeObject.x_objects, ImageName(n)) :
                              PageTreeObject.x_objects[e].ref = writer[p].id

\* a finished export in which the encoding of an image failed, the image
\* being drawn by a content stream and followed by another image
C16_Witness ==
    /\ pc = "done"
    /\ \E image_id \in failed :
          /\ RemapperMap(image_map, image_id) + 1 < Len(image_refs)
          /\ \E s \in ObjectsOfKind({"stream"}) :
                \E j \in DOMAIN inflate(writer[s].data) :
                    /\ inflate(writer[s].data)[j].op = "x_object"
                    /\ inflate(writer[s].data)[j].name
                          = ImageName(RemapperMap(image_map, image_id))

\* the rows of the decision table: output stream, filter, has colour
TableRow(format, color) ==
    IF format = "jpeg" /\ color = "l8" THEN <<"jpeg", "DctDecode", FALSE>>
    ELSE IF format = "jpeg" /\ color = "rgb8" THEN <<"jpeg", "DctDecode", TRUE>>
    ELSE IF format = "png" /\ color = "l8" THEN <<"deflate(luma)", "FlateDecode", FALSE>>
    ELSE <<"deflate(rgb)", "FlateDecode", TRUE>>

\* the encodings that returned Ok
Encoded == {i \in DOMAIN encodings : encodings[i].out.ok}

FollowsTable(i) ==
    <<encodings[i].out.data, encodings[i].out.filter, encodings[i].out.has_color>>
        = TableRow(encodings[i].img.format, encodings[i].img.color)

\* C17 (amended): every encoding that succeeds follows the decision table for
\* its (source format, pixel kind); hence the filter is DCTDecode exactly for
\* the JPEG images of 8-bit gray or 8-bit RGB and FlateDecode for every other
\* image, the JPEG images of another pixel kind included; and only an
\* encoding of the two DCTDecode rows can fail.
C17_EncodeTable ==
    /\ \A i \in Encoded :
          /\ FollowsTable(i)
          /\ (encodings[i].out.filter = "DctDecode")
                = (encodings[i].img.format = "jpeg" /\ encodings[i].img.color \in {"l8", "rgb8"})
          /\ encodings[i].out.filter \in {"DctDecode", "FlateDecode"}
    /\ \A i \in DOMAIN encodings \ Encoded :
          encodings[i].img.format = "jpeg" /\ encodings[i].img.color \in {"l8", "rgb8"}

\* C17 (as claimed): every encoding that succeeds follows the decision table,
\* and the filter is DCTDecode for every JPEG image and FlateDecode for every
\* image that is not a JPEG.
C17_FilterByFormat ==
    \A i \in Encoded :
        /\ FollowsTable(i)
        /\ encodings[i].out.filter
              = IF encodings[i].img.format = "jpeg" THEN "DctDecode" ELSE "FlateDecode"

\* a JPEG of 16-bit gray was encoded after an 8-bit gray PNG
C17_Witness ==
    /\ Len(encodings) = 2
    /\ encodings[1].img.format = "png"
    /\ encodings[1].img.color = "l8"
    /\ encodings[1].out.ok
    /\ encodings[2].img.format = "jpeg"
    /\ encodings[2].img.color = "l16"
    /\ encodings[2].out.ok
    /\ encodings[2].out.filter = "FlateDecode"

\* the faces of the text elements and the ids of the image elements among
\* es[1..n], in the order of the elements
RECURSIVE UsedIn(_, _, _)
UsedIn(es, n, kind) ==
    IF n = 0
    THEN <<>>
    ELSE UsedIn(es, n - 1, kind)
         \o (IF es[n].kind = kind
             THEN <<IF kind = "text" THEN es[n].text.face_id ELSE es[n].id>>
             ELSE <<>>)

\* the same over the frames fs[1..n], nested elements included
RECURSIVE Used(_, _, _)
Used(fs, n, kind) ==
    IF n = 0
    THEN <<>>
    ELSE Used(fs, n - 1, kind) \o UsedIn(fs[n].elements, Len(fs[n].elements), kind)

\* C18: once write_fonts and write_images have run, face_refs has one entry
\* for each face a text element uses and image_refs one entry for each image
\* an image element uses, as many as the remappers' to_layout, in the order
\* of first use: the i-th entry is the reference of the font (image) object
\* written for the i-th face (image) first used.
C18_OneRefPerIndex ==
    pc \in {"pageobjs", "done"} =>
        /\ Len(face_refs) = Len(face_map.to_layout)
        /\ Len(image_refs) = Len(image_map.to_layout)
        /\ face_map.to_layout = FirstOccurrences(Used(frames, Len(frames), "text"))
        /\ image_map.to_layout = FirstOccurrences(Used(frames, Len(frames), "image"))
        /\ \A i \in DOMAIN face_refs :
              \E o \in ObjectsWithId(face_refs[i]) :
                  /\ writer[o].kind = "type0_font"
                  /\ writer[o].face = face_map.to_layout[i]
        /\ \A i \in DOMAIN image_refs :
              \E o \in ObjectsWithId(image_refs[i]) :
                  /\ writer[o].kind \in {"image", "svg"}
                  /\ writer[o].image = image_map.to_layout[i]
        /\ \A i, j \in DOMAIN face_refs : i /= j => face_refs[i] /= face_refs[j]
        /\ \A i, j \in DOMAIN image_refs : i /= j => image_refs[i] /= image_refs[j]

\* both phases are over for two pages that use the first face at two sizes,
\* the second page also using an image
C18_Witness ==
    /\ pc \in {"pageobjs", "done"}
    /\ Len(frames) = 2
    /\ \E j, k \in DOMAIN frames[2].elements :
          /\ j < k
          /\ frames[2].elements[j].kind = "text"
          /\ frames[2].elements[k].kind = "image"
          /\ \E i \in DOMAIN frames[1].elements :
                /\ frames[1].elements[i].kind = "text"
                /\ frames[1].elements[i].text.face_id = frames[2].elements[j].text.face_id
                /\ frames[1].elements[i].text.size /= frames[2].elements[j].text.size
    /\ Len(face_refs) = 1
    /\ Len(image_refs) = 1

\* the geometries write_shape is applied to at a reached page writer: a
\* rectangle, an empty rectangle, a line and a closed path with a curve
ShapeGeometry(i) ==
    CASE i = 1 -> [kind |-> "rect", a |-> 2, b |-> 3]
      [] i = 2 -> [kind |-> "rect", a |-> 0, b |-> 3]
      [] i = 3 -> [kind |-> "line", a |-> 4, b |-> 0]
      [] i = 4 -> [kind |-> "path",
                   a |-> <<[kind |-> "MoveTo", p |-> <<0, 0>>],
                           [kind |-> "LineTo", p |-> <<2, 0>>],
                           [kind |-> "CubicTo", p1 |-> <<2, 1>>, p2 |-> <<1, 2>>,
                            p3 |-> <<0, 2>>],
                           [kind |-> "ClosePath"]>>]

ShapeFills == {None, Some(Black), Some(Red), Some(Cyan)}

ShapeStrokes ==
    {None, Some([paint |-> Black, thickness |-> 1]), Some([paint |-> Red, thickness |-> 1]),
     Some([paint |-> Cyan, thickness |-> 2])}

\* the operators that paint a path, and those that set up the stroke
PaintingOps ==
    {"fill_nonzero", "fill_even_odd", "stroke", "close_and_stroke",
     "fill_nonzero_and_stroke", "fill_even_odd_and_stroke",
     "close_fill_nonzero_and_stroke", "close_fill_even_odd_and_stroke"}

StrokeSetupOps ==
    {"set_stroke_color_space", "set_stroke_gray", "set_stroke_color", "set_stroke_cmyk",
     "set_line_width"}

OpsAmong(ops, names) == {i \in DOMAIN ops : ops[i].op \in names}

\* the shape elements among es that have a fill or a stroke
PaintedShapes(es) ==
    {i \in DOMAIN es : es[i].kind = "shape"
                       /\ (es[i].shape.fill /= None \/ es[i].shape.stroke /= None)}

\* C19: at every state the page writer reaches, write_shape of a shape with
\* neither fill nor stroke returns the writer as it is; of every other shape
\* it emits one painting operator, the last operator it emits: fill_nonzero
\* for a fill alone, stroke for a stroke alone, fill_nonzero_and_stroke for
\* both; without a stroke it emits no stroke colour, colour space or line
\* width and leaves the cached stroke as it is. So the content stream has as
\* many painting operators as the page has shapes with a paint.
C19_ShapePainting ==
    pc = "page" =>
        /\ \A i \in 1 .. 4, fill \in ShapeFills, stroke \in ShapeStrokes :
              LET x == PX
                  shape == [geometry |-> ShapeGeometry(i), fill |-> fill, stroke |-> stroke]
                  y == write_shape(x, ElemPos[1], ElemPos[2], shape)
                  ops == Emitted(x, y)
              IN  IF fill = None /\ stroke = None
                  THEN /\ ops = <<>>
                       /\ y.state = x.state
                       /\ y.saves = x.saves
                       /\ Len(y.calls) = Len(x.calls)
                  ELSE /\ OpsAmong(ops, PaintingOps) = {Len(ops)}
                       /\ ops[Len(ops)].op
                             = IF stroke = None THEN "fill_nonzero"
                               ELSE IF fill = None THEN "stroke"
                               ELSE "fill_nonzero_and_stroke"
                       /\ stroke = None =>
                             /\ OpsAmong(ops, StrokeSetupOps) = {}
                             /\ y.state.stroke = x.state.stroke
                             /\ y.state.stroke_space = x.state.stroke_space
        /\ Cardinality(OpsAmong(px.content, PaintingOps))
              = Cardinality(PaintedShapes(Last(frames).elements))

\* a page on which a shape without paints was written between a shape with
\* fill and stroke and a shape with a stroke alone
C19_Witness ==
    /\ pc = "page"
    /\ \E i \in DOMAIN Last(frames).elements :
          /\ Last(frames).elements[i].kind = "shape"
          /\ i \notin PaintedShapes(Last(frames).elements)
          /\ \E j \in PaintedShapes(Last(frames).elements) : j < i
          /\ \E j \in PaintedShapes(Last(frames).elements) : j > i
    /\ \E j, k \in DOMAIN px.content :
          /\ j < k
          /\ px.content[j].op = "fill_nonzero_and_stroke"
          /\ px.content[k].op = "stroke"

\* the flip of a page of the given height to a top-left origin
PageFlip(height) == [sx |-> 1, ky |-> 0, kx |-> 0, sy |-> 0 - 1, tx |-> 0, ty |-> height]

\* the transforms of the page and of the groups that are open after the
\* elements es[1..n], the innermost last
RECURSIVE OpenTransforms(_, _, _)
OpenTransforms(es, n, height) ==
    IF n = 0
    THEN <<PageFlip(height)>>
    ELSE LET open == OpenTransforms(es, n - 1, height)
         IN  CASE es[n].kind = "group" ->
                     Append(open,
                            PreConcat(Last(open),
                                      PreConcat(TransformTranslate(es[n].pos[1], es[n].pos[2]),
                                                es[n].group.transform)))
               [] es[n].kind = "end_group" -> Front(open)
               [] OTHER -> open

\* for each link element among es[1..n], in order: the element and the
\* transform in effect where it stands
RECURSIVE LinksInEffect(_, _, _)
LinksInEffect(es, n, height) ==
    IF n = 0
    THEN <<>>
    ELSE IF es[n].kind = "link"
         THEN Append(LinksInEffect(es, n - 1, height),
                     [link |-> es[n], t |-> Last(OpenTransforms(es, n - 1, height))])
         ELSE LinksInEffect(es, n - 1, height)

\* the four corners of a link's rectangle under a transform
Corners(link, t) ==
    {PointTransform(<<link.pos[1] + dx, link.pos[2] + dy>>, t) :
       dx \in {0, link.size[1]}, dy \in {0, link.size[2]}}

\* rect = (x1, y1, x2, y2) is the bounding box of the points, y1 on top
BoundingBox(rect, points) ==
    /\ rect[1] <= rect[3]
    /\ rect[2] >= rect[4]
    /\ \A c \in points : rect[1] <= c[1] /\ c[1] <= rect[3]
    /\ \A c \in points : rect[4] <= c[2] /\ c[2] <= rect[2]
    /\ \E c \in points : c[1] = rect[1]
    /\ \E c \in points : c[1] = rect[3]
    /\ \E c \in points : c[2] = rect[2]
    /\ \E c \in points : c[2] = rect[4]

\* C20: on the page being written, the k-th recorded link has the destination
\* of the k-th link element, and its rect (x1, y1, x2, y2) is the bounding box
\* of the four corners of the element's rectangle under the page flip
\* composed with the transforms of the groups open around the element, with
\* x1 <= x2 and y1 >= y2; and write_link applied to the page writer changes
\* nothing but the list of links, which gets one more entry.
C20_LinkRect ==
    pc = "page" =>
        LET ls == LinksInEffect(Last(frames).elements, Len(Last(frames).elements),
                                Last(frames).size[2])
        IN  /\ Len(px.links) = Len(ls)
            /\ \A k \in DOMAIN ls :
                  /\ px.links[k].dest = ls[k].link.dest
                  /\ BoundingBox(px.links[k].rect, Corners(ls[k].link, ls[k].t))
            /\ LET x == PX
                   y == write_link(x, ElemPos, [kind |-> "Url", uri |-> "u", page |-> 0,
                                                pos |-> <<0, 0>>], LinkSize)
               IN  /\ y.content = x.content
                   /\ y.state = x.state
                   /\ y.saves = x.saves
                   /\ Len(y.links) = Len(x.links) + 1
                   /\ SubSeq(y.links, 1, Len(x.links)) = x.links

\* a link inside a turned group, written after a link outside of it: its box
\* is as wide as the link is high
C20_Witness ==
    /\ pc = "page"
    /\ Len(px.links) = 2
    /\ depth = 1
    /\ px.state.transform.sx = 0
    /\ px.links[2].rect[3] - px.links[2].rect[1] = LinkSize[2]
    /\ px.links[2].rect[2] - px.links[2].rect[4] = LinkSize[1]
    /\ px.links[1].rect[3] - px.links[1].rect[1] = LinkSize[1]

\* the languages written from right to left among those of the input
RightToLeft == {"ar", "he"}

\* C21: when the export has returned, the catalog's Direction is R2L if the
\* catalog has a Lang entry and that language is written from right to
\* left, and L2R otherwise; an input without a text element gets L2R and no
\* Lang entry.
C21_Direction ==
    pc = "done" =>
        /\ CatalogObject.direction
              = IF CatalogObject.lang /= None /\ CatalogObject.lang[1] \in RightToLeft
                THEN "R2L"
                ELSE "L2R"
        /\ InputLanguages = {} =>
              /\ CatalogObject.direction = "L2R"
              /\ CatalogObject.lang = None

\* a finished export with the right-to-left language chosen over a
\* left-to-right language of the same input
C21_Witness ==
    /\ pc = "done"
    /\ CatalogObject.lang = Some("ar")
    /\ CatalogObject.direction = "R2L"
    /\ "en" \in InputLanguages

\* the table has been laid out
Laid == tbl.pc = "laid"

\* the elements of frame f of the laid-out table
TableElements(f) == tbl.out.fragment[f].elements

\* the calls of the fill function that decide the background drawn at the
\* place of element e of frame f
FillCallsAt(f, e) ==
    {c \in DOMAIN tbl.out.fill_calls[f] :
        /\ tbl.out.fill_calls[f][c].pos = e.pos
        /\ tbl.out.fill_calls[f][c].size = e.size}

\* C22: the fill function is called for each cell with the cell's zero-based
\* column and row index, the coordinates (i mod cols, i div cols) that the
\* align function gets for the cell, also when gutters are configured
C22_FillGetsCellIndex ==
    (Laid /\ tbl.styles.fill = "func") =>
        \A f \in DOMAIN tbl.out.fragment :
            \A k \in DOMAIN TableElements(f) :
                LET e == TableElements(f)[k]
                IN  e.kind = "cell" =>
                       /\ FillCallsAt(f, e) /= {}
                       /\ \A c \in FillCallsAt(f, e) :
                             <<tbl.out.fill_calls[f][c].x, tbl.out.fill_calls[f][c].y>>
                                = tbl.out.align_calls[e.cell + 1]

\* the table has been constructed
Constructed == tbl.pc /= "new"

\* C23: column-gutter, when given, is the gutter of the columns and
\* row-gutter, when given, the gutter of the rows, each taking precedence over
\* gutter; an axis whose own gutter is not given uses gutter, whatever the
\* other axis was given
C23_GutterPrecedence ==
    Constructed =>
        /\ tbl.args.column_gutter /= None => tbl.node.gutter.x = tbl.args.column_gutter[1]
        /\ tbl.args.column_gutter = None => tbl.node.gutter.x = tbl.args.gutter
        /\ tbl.args.row_gutter /= None => tbl.node.gutter.y = tbl.args.row_gutter[1]
        /\ tbl.args.row_gutter = None => tbl.node.gutter.y = tbl.args.gutter

\* column-gutter and gutter are given and row-gutter is not
C23_Witness ==
    /\ Constructed
    /\ tbl.args.gutter = <<1>>
    /\ tbl.args.column_gutter = Some(<<2>>)
    /\ tbl.args.row_gutter = None
    /\ tbl.node.gutter.x = <<2>>
    /\ tbl.node.gutter.y = <<1>>

\* the layer of an element of a table frame: background, line or content
Layer(e) ==
    CASE e.kind = "rect" -> 0
      [] e.kind \in {"hline", "vline"} -> 1
      [] e.kind = "cell" -> 2

\* C30: in every frame of a laid-out table all cell backgrounds come before
\* all stroke lines and all stroke lines before the cell content
C30_BackgroundsLinesContent ==
    Laid =>
        \A f \in DOMAIN tbl.out.fragment :
            \A a, b \in DOMAIN TableElements(f) :
                a < b => Layer(TableElements(f)[a]) <= Layer(TableElements(f)[b])

\* a table of two frames, one of which has backgrounds, lines and content
C30_Witness ==
    /\ Laid
    /\ Len(tbl.out.fragment) = 2
    /\ \E f \in DOMAIN tbl.out.fragment :
          \E a, b, c \in DOMAIN TableElements(f) :
             /\ TableElements(f)[a].kind = "rect"
             /\ TableElements(f)[b].kind = "hline"
             /\ TableElements(f)[c].kind = "cell"

\* the n-th smallest member of a set of indices
Nth(S, n) == CHOOSE i \in S : Cardinality({j \in S : j <= i}) = n

\* the requests of one kind among the requests of the live page writer
Requests(kind) == {i \in DOMAIN px.calls : px.calls[i].kind = kind}

\* the save_state request that restore_state request r closes: the last one
\* before r with as many saves as restores in between
MatchingSave(r) ==
    CHOOSE s \in Requests("save") :
        /\ s < r
        /\ Cardinality({i \in Requests("save") : s < i /\ i < r})
              = Cardinality({i \in Requests("restore") : s < i /\ i < r})
        /\ \A t \in Requests("save") :
              (t < r /\ Cardinality({i \in Requests("save") : t < i /\ i < r})
                          = Cardinality({i \in Requests("restore") : t < i /\ i < r}))
                  => t <= s

\* the groups entered and left so far on the page being written
GroupsEntered == {k \in DOMAIN Last(frames).elements : Last(frames).elements[k].kind = "group"}

GroupsLeft == {k \in DOMAIN Last(frames).elements : Last(frames).elements[k].kind = "end_group"}

\* the matrix write_group concatenates for a group at pos
GroupMatrix(pos, group) ==
    LET t == PreConcat(TransformTranslate(pos[1], pos[2]), group.transform)
    IN  <<t.sx, t.ky, t.kx, t.sy, t.tx, t.ty>>

\* the operators content[at .. at + 5] are the clip path of a frame of size w x h
ClipPathAt(content, at, w, h) ==
    /\ at + 5 <= Len(content)
    /\ [i \in 1 .. 6 |-> content[at + i - 1].op]
          = <<"move_to", "line_to", "line_to", "line_to", "clip_nonzero", "end_path">>
    /\ [i \in 1 .. 4 |-> <<content[at + i - 1].x, content[at + i - 1].y>>]
          = <<<<0, 0>>, <<w, 0>>, <<w, h>>, <<0, h>>>>

\* C24: a group emits one save, then the transform, then the clip path when
\* and only when it clips, then its children, then one restore; after the
\* restore the cached graphics state and the depth of the save stack are
\* those the save found, whatever the children set
C24_GroupScoped ==
    pc = "page" =>
        /\ Cardinality(Requests("save")) = Cardinality(GroupsEntered)
        /\ Cardinality(Requests("restore")) = Cardinality(GroupsLeft)
        /\ \A n \in 1 .. Cardinality(GroupsEntered) :
              LET s == px.calls[Nth(Requests("save"), n)]
                  e == Last(frames).elements[Nth(GroupsEntered, n)]
                  children == s.to + 2 + (IF e.group.clips THEN 6 ELSE 0)
              IN  /\ s.to = s.from + 1
                  /\ px.content[s.to].op = "save_state"
                  /\ px.content[s.to + 1].op = "transform"
                  /\ px.content[s.to + 1].m = GroupMatrix(e.pos, e.group)
                  /\ e.group.clips =>
                        ClipPathAt(px.content, s.to + 2, e.group.size[1], e.group.size[2])
                  /\ \A i \in DOMAIN px.calls :
                        i > Nth(Requests("save"), n) => px.calls[i].from >= children - 1
        /\ Cardinality({i \in DOMAIN px.content : px.content[i].op = "clip_nonzero"})
              = Cardinality({k \in GroupsEntered : Last(frames).elements[k].group.clips})
        /\ \A r \in Requests("restore") :
              /\ px.calls[r].to = px.calls[r].from + 1
              /\ px.content[px.calls[r].to].op = "restore_state"
              /\ px.calls[r].value = px.calls[MatchingSave(r)].value

\* a clipping group whose text child set the font and the fill has returned:
\* the cache holds no font and no fill again
C24_Witness ==
    /\ pc = "page"
    /\ \E r \in Requests("restore") :
          /\ Last(frames).elements[Nth(GroupsEntered, 1)].group.clips
          /\ \E i \in Requests("font") :
                /\ MatchingSave(r) < i
                /\ i < r
                /\ px.calls[i].from < px.calls[i].to
          /\ px.calls[r].value.state.font = None
          /\ px.calls[r].value.state.fill = None
          /\ px.calls[r].value.state.transform = px.calls[MatchingSave(r)].value.state.transform
          /\ px.calls[r].value.saves = 0
          /\ px.state = px.calls[r].value.state

\* the operators that construct a path
PathOps == {"rect", "move_to", "line_to", "cubic_to", "close_path"}

\* the painted rectangles among the elements es
PaintedRects(es) == {i \in PaintedShapes(es) : es[i].shape.geometry.kind = "rect"}

\* C25: every painting operator of a page has a path operator before it with
\* no other painting operator or end of path in between, and every painted
\* rectangle, whatever its size, emits one rect operator with its position
\* and size
C25_PathBeforePaint ==
    pc = "page" =>
        /\ \A i \in OpsAmong(px.content, PaintingOps) :
              \E j \in OpsAmong(px.content, PathOps) :
                 /\ j < i
                 /\ \A k \in j + 1 .. i - 1 :
                       px.content[k].op \notin PaintingOps \cup {"end_path"}
        /\ Cardinality(OpsAmong(px.content, {"rect"}))
              = Cardinality(PaintedRects(Last(frames).elements))
        /\ \A n \in 1 .. Cardinality(PaintedRects(Last(frames).elements)) :
              LET e == Last(frames).elements[Nth(PaintedRects(Last(frames).elements), n)]
                  o == px.content[Nth(OpsAmong(px.content, {"rect"}), n)]
              IN  <<o.x, o.y, o.w, o.h>>
                     = <<e.pos[1], e.pos[2], e.shape.geometry.a, e.shape.geometry.b>>

IsShow(item) == "show" \in DOMAIN item

\* the adjustments among the items of a show-positioned array
AdjustItems(items) == {p \in DOMAIN items : ~IsShow(items[p])}

\* the glyph before which item p is emitted: one more than the glyphs shown
\* by the items before it
GlyphAt(items, p) == Len(ShownBytes(SubSeq(items, 1, p - 1))) \div 2 + 1

\* the glyphs that have an adjustment emitted before them
AdjustedGlyphs(items) == {GlyphAt(items, p) : p \in AdjustItems(items)}

\* the last glyph before glyph i with an adjustment emitted before it, or 0
LastAdjusted(items, i) == SetMax({0} \cup {j \in AdjustedGlyphs(items) : j < i})

\* what a glyph adds after it is pushed: x_advance - default advance, when
\* the face has an advance for it, minus x_offset
Kern(face_id, glyph) ==
    LET advance == FaceAdvance(face_id, glyph.id)
    IN  (IF advance /= None THEN glyph.x_advance - advance[1] ELSE 0) - glyph.x_offset

RECURSIVE KernSum(_, _, _, _)
KernSum(face_id, glyphs, a, b) ==
    IF b < a THEN 0 ELSE KernSum(face_id, glyphs, a, b - 1) + Kern(face_id, glyphs[b])

RECURSIVE OffsetSum(_, _, _)
OffsetSum(glyphs, a, b) ==
    IF b < a THEN 0 ELSE OffsetSum(glyphs, a, b - 1) + glyphs[b].x_offset

\* x_offset of glyph i plus Kern over the glyphs since the last emitted
\* adjustment
ClaimedSum(text, items, i) ==
    text.glyphs[i].x_offset
       + KernSum(text.face_id, text.glyphs, Max(1, LastAdjusted(items, i)), i - 1)

\* the same with the x_offset of every glyph that was added to the running
\* adjustment since it was last reset: the glyphs after the one that followed
\* the last emitted adjustment, up to glyph i
RunningSum(text, items, i) ==
    OffsetSum(text.glyphs, LastAdjusted(items, i) + 1, i)
       + KernSum(text.face_id, text.glyphs, Max(1, LastAdjusted(items, i)), i - 1)

\* items is the show-positioned array of text, with Sum the running sum
ShowArray(text, items, Sum(_, _, _)) ==
    /\ Len(ShownBytes(items)) = 2 * Len(text.glyphs)
    /\ \A p \in 1 .. Len(items) - 1 : IsShow(items[p]) /= IsShow(items[p + 1])
    /\ \A p \in DOMAIN items :
          IF IsShow(items[p])
          THEN items[p].show /= <<>>
          ELSE /\ items[p].adjust /= 0
               /\ GlyphAt(items, p) \in DOMAIN text.glyphs
               /\ items[p].adjust = 0 - ToFontUnits(Sum(text, items, GlyphAt(items, p)))
    /\ \A i \in DOMAIN text.glyphs \ AdjustedGlyphs(items) : Sum(text, items, i) = 0
    /\ items /= <<>> => IsShow(Last(items))

\* the k-th text element of the page and the items of its show-positioned array
TextsShown ==
    LET ts == TextElements(Last(frames).elements)
        ps == ShowPositions(px.content, Len(px.content))
    IN  [k \in DOMAIN ts |-> [text |-> ts[k].text, items |-> px.content[ps[k]].items]]

\* C26 as stated: the items alternate between non-empty strings and non-zero
\* adjustments; the adjustment before glyph i is the negated sum, in font
\* units, of x_offset_i and, over the glyphs since the last emitted
\* adjustment, x_advance - default advance - x_offset; no adjustment is
\* emitted for a sum of zero, nor after the last glyph
C26_ClaimedAdjustments ==
    pc = "page" =>
        \A k \in DOMAIN TextsShown :
            ShowArray(TextsShown[k].text, TextsShown[k].items, ClaimedSum)

\* C26: the items alternate between non-empty strings and non-zero
\* adjustments; the adjustment before glyph i is the negated running sum, in
\* font units, of the x_offset of glyph i and of every glyph before it that
\* comes after the glyph following the last emitted adjustment, plus, over
\* the glyphs since the last emitted adjustment, x_advance - default advance
\* - x_offset (without the advances for a glyph the face has no advance for);
\* no adjustment is emitted for a sum of zero, nor after the last glyph
C26_ShowArray ==
    pc = "page" =>
        \A k \in DOMAIN TextsShown :
            ShowArray(TextsShown[k].text, TextsShown[k].items, RunningSum)

\* the text of three glyphs whose first two are offset by one em was written:
\* an adjustment, two glyphs, an adjustment, one glyph
C26_Witness ==
    /\ pc = "page"
    /\ \E k \in DOMAIN TextsShown :
          /\ TextsShown[k].text.glyphs = <<Glyph(7, 1, 1), Glyph(8, 1, 1), Glyph(9, 1, 0)>>
          /\ Len(TextsShown[k].items) = 4
          /\ TextsShown[k].items[1].adjust = 0 - 1000
          /\ TextsShown[k].items[2].show = <<0, 7, 0, 8>>
          /\ TextsShown[k].items[3].adjust = 1000
          /\ TextsShown[k].items[4].show = <<0, 9>>

Blue == Solid(Rgba(0, 0, 255, 255))

\* the orderings of up to MaxFills luma, RGB and CMYK fills
FillOrderings == UNION {[1 .. n -> {Black, Red, Blue, Cyan}] : n \in 1 .. MaxFills}

\* the page writer after it wrote one filled rectangle for each fill, in order
RECURSIVE FillEach(_, _)
FillEach(x, fills) ==
    IF fills = <<>>
    THEN x
    ELSE FillEach(write_shape(x, ElemPos[1], ElemPos[2],
                              [geometry |-> [kind |-> "rect", a |-> 2, b |-> 3],
                               fill |-> Some(Head(fills)), stroke |-> None]),
                  Tail(fills))

\* a fill colour-space operator names the space of the fill colour-space
\* operator before it, with no save or restore between the two
RedundantFillSpace(content) ==
    \E i, j \in OpsAmong(content, {"set_fill_color_space"}) :
        /\ i < j
        /\ content[i].space = content[j].space
        /\ \A k \in i + 1 .. j - 1 :
              content[k].op \notin {"set_fill_color_space", "save_state", "restore_state"}

\* C27: from a page writer there is an ordering of CMYK, RGB and luma shapes
\* for which a fill colour-space operator is emitted that names the same
\* space as the fill colour-space operator before it at that save level
C27_RedundantSpaceOperator ==
    pc = "page" =>
        \E fills \in FillOrderings : RedundantFillSpace(FillEach(PX, fills).content)

\* the content stream of page i, finished or being written
PageContent(i) == IF i \in DOMAIN pages THEN pages[i].content ELSE px.content

\* the fill and the stroke an element paints with, if any
FillOf(e) ==
    IF e.kind = "text" THEN Some(e.text.fill)
    ELSE IF e.kind = "shape" THEN e.shape.fill ELSE None

StrokeOf(e) == IF e.kind = "shape" THEN e.shape.stroke ELSE None

\* the operators that paint with the fill, and with the stroke
FillUses == {"show_positioned", "fill_nonzero", "fill_nonzero_and_stroke"}

StrokeUses == {"stroke", "fill_nonzero_and_stroke"}

\* the operators named ops stand in content before the first operator among
\* uses, the first of them naming the colour space of color if it names one
SelectedBefore(content, ops, uses, color) ==
    \E q \in DOMAIN content :
        /\ q + Len(ops) - 1 < SetMin(OpsAmong(content, uses))
        /\ OpNames(SubSeq(content, q, q + Len(ops) - 1)) = ops
        /\ color.kind /= "cmyk" =>
              content[q].space = (IF color.kind = "luma" THEN SRGB_GRAY ELSE SRGB)

\* C28: every page starts with nothing cached and nothing saved, and on every
\* page the first text element is preceded by the operator that selects its
\* font, the first element with a fill by the colour operators of its fill,
\* colour space included, and the first element with a stroke by those of its
\* stroke and the line width, whatever the pages before it selected
C28_CachePerPage ==
    /\ (pc = "page" /\ Last(frames).elements = <<>>) =>
          /\ px.state.font = None
          /\ px.state.fill = None
          /\ px.state.fill_space = None
          /\ px.state.stroke = None
          /\ px.state.stroke_space = None
          /\ px.saves = <<>>
    /\ \A i \in DOMAIN frames :
          LET es == frames[i].elements
              c == PageContent(i)
              texts == {k \in DOMAIN es : es[k].kind = "text"}
              fills == {k \in DOMAIN es : FillOf(es[k]) /= None}
              strokes == {k \in DOMAIN es : StrokeOf(es[k]) /= None}
          IN  /\ texts /= {} =>
                    LET text == es[SetMin(texts)].text
                    IN  \E q \in DOMAIN c :
                           /\ q < SetMin(OpsAmong(c, {"show_positioned"}))
                           /\ c[q].op = "set_font"
                           /\ c[q].name = FontName(RemapperMap(face_map, text.face_id))
                           /\ c[q].size = text.size
              /\ fills /= {} =>
                    LET color == FillOf(es[SetMin(fills)])[1].color
                    IN  SelectedBefore(c, ColorOps("set_fill", color, None), FillUses, color)
              /\ strokes /= {} =>
                    LET color == StrokeOf(es[SetMin(strokes)])[1].paint.color
                    IN  SelectedBefore(c, ColorOps("set_stroke", color, None)
                                          \o <<"set_line_width">>, StrokeUses, color)

\* two finished pages that both start with the same text, the second after a
\* shape with the text's fill as fill and stroke: the second page selects the
\* font and the fill again
C28_Witness ==
    /\ Len(pages) = 2
    /\ Len(frames[1].elements) = 2
    /\ frames[1].elements[1].kind = "text"
    /\ frames[1].elements[2].kind = "shape"
    /\ frames[1].elements[2].shape.stroke /= None
    /\ frames[2].elements = <<frames[1].elements[1]>>
    /\ frames[1].elements[1].text.fill = Black
    /\ OpNames(SubSeq(pages[2].content, 2, 5))
          = <<"begin_text", "set_font", "set_fill_color_space", "set_fill_gray">>

\* C29: an export of frames without out-of-range internal links never fails
\* a lookup in its own tables: restore_state finds a saved state for every
\* group that is open, every face of face_map has its entry in glyph_sets,
\* which write_fonts indexes, and the keys Remapper.map is called with, the
\* face of set_font and the image of write_image, are in the remapper when it
\* is called, that is after the insert before it
C29_NoFatalLookup ==
    /\ DanglingLinks = {} => pc /= "panic"
    /\ Range(face_map.to_layout) \subseteq DOMAIN glyph_sets
    /\ pc = "page" =>
          /\ depth > 0 => px.saves /= <<>>
          /\ \A i \in Requests("font") :
                px.calls[i].value[1] \in DOMAIN face_map.to_pdf
          /\ \A text \in Texts :
                text.face_id \in DOMAIN RemapperInsert(PX.font_map, text.face_id).to_pdf
          /\ \A id \in ImageIds :
                id \in DOMAIN RemapperInsert(PX.image_map, id).to_pdf

\* a finished export of two faces, one of them used by a text inside a group
\* that was left again
C29_Witness ==
    /\ pc = "done"
    /\ Len(face_refs) = 2
    /\ \E i \in DOMAIN frames :
          \E j, k, l \in DOMAIN frames[i].elements :
             /\ j < k
             /\ k < l
             /\ frames[i].elements[j].kind = "group"
             /\ frames[i].elements[k].kind = "text"
             /\ frames[i].elements[l].kind = "end_group"

====
